---- MODULE Spec2Model ----
(***************************************************************************)
(* A model of the build engine of ninja: the dependency scan (scan.cc),    *)
(* the plan (plan.cc) and the parts of the graph they read (graph.h,       *)
(* graph.cc).  Nodes are named by their path (a string), edges by their    *)
(* index in State::edges_ (1-based).  Every C++ routine is an operator     *)
(* from a program state (a record of the fields it reads and writes) to    *)
(* the program state it leaves behind, together with its return value.     *)
(***************************************************************************)
EXTENDS Integers, Sequences, FiniteSets, TLC

VARIABLES
  manifest,        \* the parsed manifest (never changes)
  nodes,           \* State::paths_ : path -> Node
  edges,           \* State::edges_ : sequence of Edge
  disk,            \* DiskInterface: path -> mtime, 0 = no such file
  depfiles,        \* DiskInterface: depfile path -> (parsed) content
  build_log,       \* BuildLog: present?, log_ : path -> LogEntry
  deps_log,        \* DepsLog: output path -> Deps
  want_,           \* Plan::want_
  ready_,          \* Plan::ready_
  command_edges_,  \* Plan::command_edges_
  wanted_edges_,   \* Plan::wanted_edges_
  pools,           \* State::pools_ : name -> Pool
  err,             \* the caller's error string, as the pieces appended to it
  pc,              \* where the driver is: "add", "build", "failed", "done"
  invocation,      \* 1 = first run of the program, 2 = the run after it
  targets,         \* the targets requested so far in this invocation
  goal,            \* the command line: the targets to request, in order
  running,         \* edges FindWork returned and EdgeFinished has not seen
  started,         \* edges FindWork has ever returned in this invocation
  finished,        \* edges passed to EdgeFinished in this invocation
  marked,          \* edges whose want was set to true in this invocation
  demoted,         \* edges CleanNode turned from want = true to false
  crashed,         \* an assert of the program has failed
  built,           \* edges whose command ran in the invocation before
  scanned,         \* per scanned edge, the most recent input the scan found
  visits,          \* the calls of RecomputeDirty the last scan made
  failures_remaining, \* Builder::Build: the command failures still allowed
  failed,          \* edges whose command failed in this invocation
  lexer_,          \* ManifestParser::lexer_: the bindings of the rule still to read
  bindings_,       \* ParseRule: rule->bindings_ of the rule being read
  reserved_binding_references, \* ParseRule: binding -> the reserved bindings it names
  lookup,          \* the last Edge::GetBinding call and what it returned
  printer,         \* the LinePrinter object: its fields
  stdout,          \* the characters written to the terminal so far
  plog,            \* the LinePrinter calls made since the console was last locked
  fs,              \* the directory of the log: file name -> characters
  blog,            \* the BuildLog object of the running program
  buf_base,        \* the address of LineReader::buf_, modulo 16
  origin,          \* how the log file came to be: who wrote which entries
  last,            \* the last call made and what it returned
  probe            \* the last call of RecomputeOutputDirty and its result

vars == <<manifest, nodes, edges, disk, depfiles, build_log, deps_log, want_,
          ready_, command_edges_, wanted_edges_, pools, err, pc, invocation,
          targets, goal, running, started, finished, marked, demoted,
          crashed, built, scanned, visits, failures_remaining, failed, lexer_, bindings_, reserved_binding_references, lookup, printer, stdout, plog, fs, blog,
          buf_base, origin, last, probe>>

-----------------------------------------------------------------------------
(* Bounds of the model.                                                    *)

\* File times range over 0..MaxTime before the first command runs.
MaxTime == 2

\* One scan is followed for at most MaxVisits calls of RecomputeDirty.
MaxVisits == 8

\* The command line allows 1..MaxFailures failing commands (-k).
MaxFailures == 2

\* A log file holds at most MaxEntries entries that differ, and the program
\* is run MaxRuns times on it.
MaxEntries == 2
MaxRuns == 2

-----------------------------------------------------------------------------
(* Small helpers.                                                          *)

NoNode == ""          \* a NULL Node*
NoEdge == 0           \* a NULL Edge*
NoErr  == <<>>        \* an empty error string

SeqToSet(s) == {s[i] : i \in 1..Len(s)}

RECURSIVE SetToSeq(_)
SetToSeq(S) ==
  IF S = {} THEN <<>>
  ELSE LET x == CHOOSE y \in S : TRUE IN <<x>> \o SetToSeq(S \ {x})

\* The number of positions of s that hold x.
Count(s, x) == Cardinality({i \in 1..Len(s) : s[i] = x})

\* n copies of x.
Repeat(x, n) == [i \in 1..n |-> x]

RECURSIVE MaxOf(_)
MaxOf(S) ==
  IF S = {} THEN 0
  ELSE LET x == CHOOSE y \in S : TRUE
           m == MaxOf(S \ {x})
       IN IF x > m THEN x ELSE m

-----------------------------------------------------------------------------
(* Rules and manifests.                                                    *)

\* The bindings of a rule that the engine looks up, already expanded for
\* the edge (Edge::GetBinding), and whether it is State::kPhonyRule.
CatRule ==
  [name |-> "cat", phony |-> FALSE, command |-> "cat", rspfile_content |-> "",
   restat |-> "", generator |-> "", deps |-> "", depfile |-> "", pool |-> ""]

PhonyRule == [CatRule EXCEPT !.name = "phony", !.phony = TRUE, !.command = ""]

PoolCat(p) == [CatRule EXCEPT !.name = "poolcat", !.pool = p]
RestatRule == [CatRule EXCEPT !.name = "restat", !.restat = "1", !.command = "true"]
GenRule    == [CatRule EXCEPT !.name = "gen", !.generator = "1", !.command = "gen"]
RspRule    == [CatRule EXCEPT !.name = "rsp", !.command = "cat",
                               !.rspfile_content = "x"]
DepsRule   == [CatRule EXCEPT !.name = "cc", !.deps = "gcc", !.command = "cc"]
DepfileRule(d) == [CatRule EXCEPT !.name = "ccd", !.depfile = d, !.command = "cc"]

\* build outs: rule ins | imps || oos
Build(outs, rule, ins, imps, oos) ==
  [outs |-> outs, rule |-> rule, ins |-> ins, imps |-> imps, oos |-> oos]

\* State::kDefaultPool has depth 0 and State::kConsolePool depth 1; a
\* manifest adds its own pools.
DefaultPools == [p \in {"", "console"} |-> IF p = "" THEN 0 ELSE 1]

-----------------------------------------------------------------------------
(* The manifests the model is run on.  Each gives its build statements,    *)
(* its pools, the extra paths a depfile or the deps log may name, the      *)
(* command lines (sequences of targets) it may be invoked with, and the    *)
(* files whose time on disk is the same in every run of the model.         *)

Manifest(name, builds, pls, extra, goals, pins) ==
  [name |-> name, builds |-> builds, pools |-> pls, extra |-> extra,
   goals |-> goals, pins |-> pins]

\* No file of the manifest has a fixed time.
NoPins == [x \in {} |-> 0]

\* build mid: cat in / build out: cat mid            (PlanTest.Basic)
MChain ==
  Manifest("chain",
    << Build(<<"mid">>, CatRule, <<"in">>, <<>>, <<>>),
       Build(<<"out">>, CatRule, <<"mid">>, <<>>, <<>>) >>,
    DefaultPools, {}, { <<"out">>, <<"mid", "out">>, <<"out", "out">> },
    NoPins)

\* Two edges of a depth-1 pool, and an edge of the same pool that is only
\* traversed when its order-only input has to be built.
MPool ==
  Manifest("pool",
    << Build(<<"oo">>, CatRule, <<>>, <<>>, <<>>),
       Build(<<"t">>, PoolCat("p"), <<>>, <<>>, <<"oo">>),
       Build(<<"o1">>, PoolCat("p"), <<>>, <<>>, <<>>),
       Build(<<"o2">>, PoolCat("p"), <<>>, <<>>, <<>>) >>,
    [p \in {"", "console", "p"} |-> IF p = "" THEN 0 ELSE 1], {},
    { <<"t", "o1", "o2">>, <<"o1", "o2">> }, NoPins)

\* build a b: cat c / build c: cat b : a cycle through the second output
\* of an edge.
MCycleMulti ==
  Manifest("cycle2",
    << Build(<<"a", "b">>, CatRule, <<"c">>, <<>>, <<>>),
       Build(<<"c">>, CatRule, <<"b">>, <<>>, <<>>) >>,
    DefaultPools, {}, { <<"a">>, <<"b">>, <<"c">> }, NoPins)

\* build a: cat b / build b: cat c / build c: cat a   (PlanTest.DependencyCycle)
MCycle ==
  Manifest("cycle",
    << Build(<<"a">>, CatRule, <<"b">>, <<>>, <<>>),
       Build(<<"b">>, CatRule, <<"c">>, <<>>, <<>>),
       Build(<<"c">>, CatRule, <<"a">>, <<>>, <<>>) >>,
    DefaultPools, {}, { <<"a">>, <<"b">> }, NoPins)

\* A restat edge with two levels of consumers.
MRestat ==
  Manifest("restat",
    << Build(<<"r">>, RestatRule, <<"in">>, <<>>, <<>>),
       Build(<<"c">>, CatRule, <<"r">>, <<>>, <<>>),
       Build(<<"d">>, PhonyRule, <<"c">>, <<>>, <<>>) >>,
    DefaultPools, {}, { <<"d">> }, NoPins)

\* A restat edge of a depth-1 pool whose consumer is in the same pool.
MRestatPool ==
  Manifest("restatpool",
    << Build(<<"r">>, RestatRule, <<"in">>, <<>>, <<>>),
       Build(<<"c">>, PoolCat("p"), <<"r">>, <<>>, <<>>),
       Build(<<"o1">>, PoolCat("p"), <<>>, <<>>, <<>>),
       Build(<<"o2">>, PoolCat("p"), <<>>, <<>>, <<>>) >>,
    [p \in {"", "console", "p"} |-> IF p = "" THEN 0 ELSE 1], {},
    { <<"c", "o1", "o2">> }, [x \in {"o1", "o2"} |-> 0])

\* An edge with two outputs whose consumers are asked for more than once
\* when it finishes: x has a as input and as order-only input, y and z
\* have both outputs as inputs; x and y share a depth-1 pool.
\* (PlanTest.PoolWithRedundantEdges, PlanTest.DoubleOutputDirect)
MRedundant ==
  Manifest("redundant",
    << Build(<<"a", "b">>, CatRule, <<"in">>, <<>>, <<>>),
       Build(<<"x">>, PoolCat("p"), <<"a">>, <<>>, <<"a">>),
       Build(<<"y">>, PoolCat("p"), <<"a", "b">>, <<>>, <<>>),
       Build(<<"z">>, CatRule, <<"a", "b">>, <<>>, <<>>) >>,
    [p \in {"", "console", "p"} |-> IF p = "" THEN 0 ELSE 1], {},
    { <<"x", "y", "z">> },
    [f \in {"in", "a", "b", "x", "y", "z"} |-> IF f = "in" THEN 1 ELSE 0])

\* An input-less phony edge as implicit input of a command and as input
\* of a phony edge.
MPhony ==
  Manifest("phony",
    << Build(<<"always">>, PhonyRule, <<>>, <<>>, <<>>),
       Build(<<"out">>, CatRule, <<"in">>, <<"always">>, <<>>),
       Build(<<"all">>, PhonyRule, <<"always">>, <<>>, <<>>) >>,
    DefaultPools, {}, { <<"out">>, <<"all">> }, NoPins)

\* build oo: cat src / build out: cat in || oo / build top: cat out
MOrderOnly ==
  Manifest("orderonly",
    << Build(<<"oo">>, CatRule, <<"src">>, <<>>, <<>>),
       Build(<<"out">>, CatRule, <<"in">>, <<>>, <<"oo">>),
       Build(<<"top">>, CatRule, <<"out">>, <<>>, <<>>) >>,
    DefaultPools, {}, { <<"top">> }, [x \in {"src"} |-> MaxTime + 1])

\* An edge whose implicit inputs come from the deps log, with an
\* order-only input that is newer than every other file; the header of
\* the deps log may be asked for before the object.
MDeps ==
  Manifest("deps",
    << Build(<<"obj">>, DepsRule, <<"src">>, <<>>, <<"gen">>) >>,
    DefaultPools, {"h"}, { <<"obj">>, <<"h", "obj">> },
    [x \in {"gen"} |-> MaxTime + 1])

\* An edge with a depfile below an edge with a depfile.
MDepfile ==
  Manifest("depfile",
    << Build(<<"obj">>, DepfileRule("obj.d"), <<"src">>, <<>>, <<>>),
       Build(<<"exe">>, DepfileRule("exe.d"), <<"obj">>, <<>>, <<>>) >>,
    DefaultPools, {"h"}, { <<"exe">> }, [x \in {"src"} |-> 1])

\* A phony edge without inputs that has a depfile binding.
MPhonyDepfile ==
  Manifest("phonydepfile",
    << Build(<<"ph">>, [PhonyRule EXCEPT !.depfile = "ph.d"], <<>>, <<>>, <<>>) >>,
    DefaultPools, {}, { <<"ph">> }, NoPins)

\* Phony edges below a command: one without inputs, one with an input
\* and an order-only input that a command makes, one with an input and a
\* depfile binding of its build statement.
MPhonyInputs ==
  Manifest("phonyinputs",
    << Build(<<"always">>, PhonyRule, <<>>, <<>>, <<>>),
       Build(<<"oo">>, CatRule, <<"src">>, <<>>, <<>>),
       Build(<<"ph">>, PhonyRule, <<"in">>, <<>>, <<"oo">>),
       Build(<<"phd">>, [PhonyRule EXCEPT !.depfile = "phd.d"],
             <<"in">>, <<>>, <<>>),
       Build(<<"out">>, CatRule, <<"ph", "always", "phd">>, <<>>, <<>>) >>,
    DefaultPools, {}, { <<"out">> },
    [f \in {"src", "out", "ph", "phd"} |->
       IF f \in {"src", "out"} THEN 1 ELSE 0])

\* A diamond: l and r both wait for base, r through an order-only input,
\* and top has both as inputs; the sides may be asked for before or after
\* the top.
MDiamond ==
  Manifest("diamond",
    << Build(<<"base">>, CatRule, <<"src">>, <<>>, <<>>),
       Build(<<"l">>, CatRule, <<"base">>, <<>>, <<>>),
       Build(<<"r">>, CatRule, <<"in">>, <<>>, <<"base">>),
       Build(<<"top">>, CatRule, <<"l", "r">>, <<>>, <<>>) >>,
    DefaultPools, {}, { <<"top">>, <<"r", "top">>, <<"top", "l">> },
    [f \in {"src", "in", "top"} |-> IF f = "top" THEN MaxTime + 1 ELSE 1])

\* build out: cat in || lib, where the inputs may be asked for as well.
MLeaf ==
  Manifest("leaf",
    << Build(<<"out">>, CatRule, <<"in">>, <<>>, <<"lib">>) >>,
    DefaultPools, {}, { <<"out">>, <<"out", "lib">>, <<"lib", "out">> },
    NoPins)

\* One edge of each kind of rule the output check distinguishes.
MRules ==
  Manifest("rules",
    << Build(<<"o">>, CatRule, <<"in">>, <<>>, <<>>),
       Build(<<"g">>, GenRule, <<"in">>, <<>>, <<>>),
       Build(<<"r">>, [RestatRule EXCEPT !.rspfile_content = "x"], <<"in">>, <<>>, <<>>),
       Build(<<"n">>, CatRule, <<>>, <<>>, <<>>) >>,
    DefaultPools, {}, { <<"o", "g", "r", "n">> }, NoPins)

-----------------------------------------------------------------------------
(* The graph a manifest parses to.                                         *)

\* Every path of the manifest: State::GetNode creates a Node per path.
PathsOf(m) ==
  UNION { SeqToSet(m.builds[i].outs) \cup SeqToSet(m.builds[i].ins)
          \cup SeqToSet(m.builds[i].imps) \cup SeqToSet(m.builds[i].oos)
          : i \in 1..Len(m.builds) } \cup m.extra

\* The depfile paths the edges of the manifest name.
DepfilesOf(m) ==
  { m.builds[i].rule.depfile : i \in 1..Len(m.builds) } \ {""}

\* Edge::Edge() and ManifestParser::ParseEdge: the inputs in the order
\* explicit, implicit, order-only, with the counts of the last two.
ParseEdge(b) ==
  [rule |-> b.rule,
   pool_ |-> b.rule.pool,
   inputs_ |-> b.ins \o b.imps \o b.oos,
   outputs_ |-> b.outs,
   implicit_deps_ |-> Len(b.imps),
   order_only_deps_ |-> Len(b.oos),
   outputs_ready_ |-> FALSE,
   deps_missing_ |-> FALSE]

ParseEdges(m) == [i \in 1..Len(m.builds) |-> ParseEdge(m.builds[i])]

\* The out-edges of path n after edges 1..k were parsed: AddIn appends the
\* edge once per occurrence of n among its inputs.
RECURSIVE OutEdgesUpTo(_, _, _)
OutEdgesUpTo(es, n, k) ==
  IF k = 0 THEN <<>>
  ELSE OutEdgesUpTo(es, n, k - 1) \o Repeat(k, Count(es[k].inputs_, n))

\* Node::Node(): not stat'd, clean; in_edge_ as State::AddOut sets it.
ParseNodes(m) ==
  LET es == ParseEdges(m) IN
  [n \in PathsOf(m) |->
    [mtime_ |-> -1,
     dirty_ |-> FALSE,
     in_edge_ |-> IF \E i \in 1..Len(es) : n \in SeqToSet(es[i].outputs_)
                  THEN CHOOSE i \in 1..Len(es) : n \in SeqToSet(es[i].outputs_)
                  ELSE NoEdge,
     out_edges_ |-> OutEdgesUpTo(es, n, Len(es))]]

\* Pool::Pool(name, depth): nothing in use, nothing delayed.
ParsePools(m) ==
  [p \in DOMAIN m.pools |-> [depth_ |-> m.pools[p], current_use_ |-> 0,
                             delayed_ |-> <<>>]]

-----------------------------------------------------------------------------
(* Accessors of graph.h.                                                   *)

\* Edge::is_phony, Edge::GetBindingBool, Node::exists, Node::status_known.
is_phony(e) == e.rule.phony
GetBindingBool(e, key) ==
  CASE key = "restat" -> e.rule.restat # ""
    [] key = "generator" -> e.rule.generator # ""
    [] OTHER -> FALSE
exists(n) == n.mtime_ # 0
status_known(n) == n.mtime_ # -1

\* is_order_only as it would be if no input counted as order-only.
is_order_only_never(e, i) == FALSE

\* Edge::is_order_only, Edge::is_implicit, for a 1-based index.
is_order_only(e, i) == i - 1 >= Len(e.inputs_) - e.order_only_deps_
is_implicit(e, i) ==
  /\ i - 1 >= Len(e.inputs_) - e.order_only_deps_ - e.implicit_deps_
  /\ ~is_order_only(e, i)
  /\ ~is_order_only(e, i)

\* EvaluateCommand as it would be if it left the response file out.
EvaluateCommandNoRsp(e, incl_rsp_file) == <<e.rule.command>>

\* Edge::EvaluateCommand: the command, and with incl_rsp_file the content
\* of the response file after it.
EvaluateCommand(e, incl_rsp_file) ==
  IF incl_rsp_file /\ e.rule.rspfile_content # ""
  THEN <<e.rule.command, ";rspfile=", e.rule.rspfile_content>>
  ELSE <<e.rule.command>>

\* BuildLog::LogEntry::HashCommand: a hash of the pieces of the command;
\* commands of the same length and first piece collide only when equal.
HashCommand(command) ==
  [len |-> Len(command), head |-> command[1],
   tail |-> IF Len(command) > 1 THEN command[Len(command)] ELSE ""]

\* AllInputsReady as it would be if it looked at the inputs before the
\* order-only ones alone.
AllInputsReadyButOrderOnly(s, e) ==
  \A i \in 1..(Len(s.edges[e].inputs_) - s.edges[e].order_only_deps_) :
    LET in_edge == s.nodes[s.edges[e].inputs_[i]].in_edge_ IN
    in_edge = NoEdge \/ s.edges[in_edge].outputs_ready_

\* Edge::AllInputsReady: no input has an in-edge that is not ready.
AllInputsReady(s, e) ==
  \A i \in 1..Len(s.edges[e].inputs_) :
    LET in_edge == s.nodes[s.edges[e].inputs_[i]].in_edge_ IN
    in_edge = NoEdge \/ s.edges[in_edge].outputs_ready_

-----------------------------------------------------------------------------
(* Stat and the build log.                                                 *)

\* Node::Stat: mtime_ becomes what the disk says (0 when there is no file).
Stat(s, n) == [s EXCEPT !.nodes[n].mtime_ = s.disk[n]]

\* Node::StatIfNecessary: stat unless the status is known; returns true
\* if it had to stat.
StatIfNecessary(s, n) ==
  IF status_known(s.nodes[n]) THEN [s |-> s, ret |-> FALSE]
  ELSE [s |-> Stat(s, n), ret |-> TRUE]

\* DependencyScan::build_log() is non-null.
HasBuildLog(s) == s.build_log.present

\* BuildLog::LookupByOutput found an entry / the entry it found.
HasLogEntry(s, path) == path \in DOMAIN s.build_log.log_
LookupByOutput(s, path) == s.build_log.log_[path]

-----------------------------------------------------------------------------
(* ImplicitDepLoader.                                                      *)

\* PreallocateSpace putting the empty slots after the order-only inputs.
PreallocateSpaceAtEnd(s, e, count) ==
  [s |-> [s EXCEPT !.edges[e].inputs_ = @ \o Repeat(NoNode, count),
                   !.edges[e].implicit_deps_ = @ + count],
   it |-> Len(s.edges[e].inputs_) + 1]

\* ImplicitDepLoader::PreallocateSpace: count empty slots before the
\* order-only inputs; returns the index of the first of them.
PreallocateSpace(s, e, count) ==
  LET ed == s.edges[e]
      k  == Len(ed.inputs_) - ed.order_only_deps_
  IN [s |-> [s EXCEPT !.edges[e].inputs_ =
                         SubSeq(ed.inputs_, 1, k) \o Repeat(NoNode, count)
                         \o SubSeq(ed.inputs_, k + 1, Len(ed.inputs_)),
                      !.edges[e].implicit_deps_ = @ + count],
      it |-> k + 1]

\* CreatePhonyInEdge making a phony edge for a node that has an in-edge.
CreatePhonyInEdgeAlways(s, n) ==
  [s EXCEPT
     !.edges = Append(@, [rule |-> PhonyRule, pool_ |-> "",
                          inputs_ |-> <<>>, outputs_ |-> <<n>>,
                          implicit_deps_ |-> 0, order_only_deps_ |-> 0,
                          outputs_ready_ |-> TRUE,
                          deps_missing_ |-> FALSE]),
     !.nodes[n].in_edge_ = Len(s.edges) + 1]

\* ImplicitDepLoader::CreatePhonyInEdge: a node without in-edge gets a new
\* phony edge with the node as only output, born ready.
CreatePhonyInEdge(s, n) ==
  IF s.nodes[n].in_edge_ # NoEdge THEN s
  ELSE [s EXCEPT
          !.edges = Append(@, [rule |-> PhonyRule, pool_ |-> "",
                               inputs_ |-> <<>>, outputs_ |-> <<n>>,
                               implicit_deps_ |-> 0, order_only_deps_ |-> 0,
                               outputs_ready_ |-> TRUE,
                               deps_missing_ |-> FALSE]),
          !.nodes[n].in_edge_ = Len(s.edges) + 1]

\* The loop of LoadDepFile and LoadDepsFromLog that fills the slots: the
\* i-th dep goes to slot it + i - 1, gets e as out-edge and a phony
\* in-edge if it has none.
RECURSIVE FillDeps(_, _, _, _, _)
FillDeps(s, e, it, deps, i) ==
  IF i > Len(deps) THEN s
  ELSE LET n  == deps[i]
           s1 == [s EXCEPT !.edges[e].inputs_[it + i - 1] = n,
                           !.nodes[n].out_edges_ = Append(@, e)]
       IN FillDeps(CreatePhonyInEdge(s1, n), e, it, deps, i + 1)

\* CanonicalizePath on a path given by its components: the "." components
\* go.
NotDot(c) == c # "."
CanonicalizePath(path) == SelectSeq(path, NotDot)

\* LoadDepFile as it would be if it did not look at the output the
\* depfile names.
LoadDepFileAnyOutput(s, e, path) ==
  IF s.depfiles[path].kind # "ok" THEN [s |-> s, ret |-> FALSE]
  ELSE LET pre == PreallocateSpace(s, e, Len(s.depfiles[path].ins))
       IN [s |-> FillDeps(pre.s, e, pre.it, s.depfiles[path].ins, 1),
           ret |-> TRUE]

\* ImplicitDepLoader::LoadDepFile.
LoadDepFile(s, e, path) ==
  LET content == s.depfiles[path]
      first_output == s.edges[e].outputs_[1]
  IN CASE content.kind = "unreadable" ->
            [s |-> [s EXCEPT !.err = <<"loading '", path, "': ", "read error">>],
             ret |-> FALSE]
       [] content.kind \in {"missing", "empty"} -> [s |-> s, ret |-> FALSE]
       [] content.kind = "malformed" ->
            [s |-> [s EXCEPT !.err = <<path, ": ", "expected ':' in depfile">>],
             ret |-> FALSE]
       [] OTHER ->
            IF <<first_output>> # CanonicalizePath(content.out)
            THEN [s |-> [s EXCEPT !.err =
                           <<"expected depfile '", path, "' to mention '",
                             first_output, "', got '">>
                           \o CanonicalizePath(content.out) \o <<"'">>],
                  ret |-> FALSE]
            ELSE LET pre == PreallocateSpace(s, e, Len(content.ins))
                 IN [s |-> FillDeps(pre.s, e, pre.it, content.ins, 1),
                     ret |-> TRUE]

\* LoadDepsFromLog as it would be if it took an entry older than the
\* output.
LoadDepsFromLogAnyAge(s, e) ==
  LET output == s.edges[e].outputs_[1]
  IN IF output \notin DOMAIN s.deps_log THEN [s |-> s, ret |-> FALSE]
     ELSE LET pre == PreallocateSpace(s, e, Len(s.deps_log[output].nodes))
          IN [s |-> FillDeps(pre.s, e, pre.it, s.deps_log[output].nodes, 1),
              ret |-> TRUE]

\* ImplicitDepLoader::LoadDepsFromLog.
LoadDepsFromLog(s, e) ==
  LET output == s.edges[e].outputs_[1]
  IN IF output \notin DOMAIN s.deps_log THEN [s |-> s, ret |-> FALSE]
     ELSE LET deps == s.deps_log[output]
          IN IF s.nodes[output].mtime_ > deps.mtime
             THEN [s |-> s, ret |-> FALSE]
             ELSE LET pre == PreallocateSpace(s, e, Len(deps.nodes))
                  IN [s |-> FillDeps(pre.s, e, pre.it, deps.nodes, 1),
                      ret |-> TRUE]

\* ImplicitDepLoader::LoadDeps.
LoadDeps(s, e) ==
  IF s.edges[e].rule.deps # "" THEN LoadDepsFromLog(s, e)
  ELSE IF s.edges[e].rule.depfile # ""
       THEN LoadDepFile(s, e, s.edges[e].rule.depfile)
       ELSE [s |-> s, ret |-> TRUE]

-----------------------------------------------------------------------------
(* DependencyScan.                                                         *)

\* The mtime the output is compared by as it would be without the restat
\* branch.
OutputMtimeOnly(s, e, output) == s.nodes[output].mtime_

\* The restat branch of RecomputeOutputDirty: the mtime the output is
\* compared by, the log's restat_mtime for a restat rule with an entry.
RestatOutputMtime(s, e, output) ==
  IF GetBindingBool(s.edges[e], "restat") /\ HasBuildLog(s)
     /\ HasLogEntry(s, output)
  THEN LookupByOutput(s, output).restat_mtime
  ELSE s.nodes[output].mtime_

\* The last part of RecomputeOutputDirty: dirty because the command is not
\* the one the log recorded.
CommandDirty(s, e, command, output) ==
  /\ ~GetBindingBool(s.edges[e], "generator")
  /\ HasBuildLog(s)
  /\ \/ ~HasLogEntry(s, output)
     \/ HashCommand(command) # LookupByOutput(s, output).command_hash

\* DependencyScan::RecomputeOutputDirty.
RecomputeOutputDirty(s, e, most_recent_input, command, output) ==
  IF is_phony(s.edges[e])
  THEN s.edges[e].inputs_ = <<>> /\ ~exists(s.nodes[output])
  ELSE IF ~exists(s.nodes[output]) THEN TRUE
  ELSE IF /\ most_recent_input # NoNode
          /\ s.nodes[output].mtime_ < s.nodes[most_recent_input].mtime_
          /\ RestatOutputMtime(s, e, output) < s.nodes[most_recent_input].mtime_
       THEN TRUE
  ELSE CommandDirty(s, e, command, output)

\* The loop of DependencyScan::RecomputeOutputsDirty from output o on.
RECURSIVE OutputsDirtyFrom(_, _, _, _, _)
OutputsDirtyFrom(s, e, most_recent_input, command, o) ==
  IF o > Len(s.edges[e].outputs_) THEN [s |-> s, ret |-> FALSE]
  ELSE LET out == s.edges[e].outputs_[o]
           s1  == StatIfNecessary(s, out).s
       IN IF RecomputeOutputDirty(s1, e, most_recent_input, command, out)
          THEN [s |-> s1, ret |-> TRUE]
          ELSE OutputsDirtyFrom(s1, e, most_recent_input, command, o + 1)

\* DependencyScan::RecomputeOutputsDirty.
RecomputeOutputsDirty(s, e, most_recent_input) ==
  OutputsDirtyFrom(s, e, most_recent_input,
                   EvaluateCommand(s.edges[e], TRUE), 1)

\* The last loop of RecomputeDirty marking the outputs without the stat.
RECURSIVE MarkOutputsUnstatted(_, _, _, _)
MarkOutputsUnstatted(s, e, dirty, o) ==
  IF o > Len(s.edges[e].outputs_) THEN s
  ELSE LET out == s.edges[e].outputs_[o]
       IN MarkOutputsUnstatted(
            IF dirty THEN [s EXCEPT !.nodes[out].dirty_ = TRUE] ELSE s,
            e, dirty, o + 1)

\* The last loop of RecomputeDirty: stat every output, mark it dirty if
\* the edge is.
RECURSIVE MarkOutputs(_, _, _, _)
MarkOutputs(s, e, dirty, o) ==
  IF o > Len(s.edges[e].outputs_) THEN s
  ELSE LET out == s.edges[e].outputs_[o]
           s1  == StatIfNecessary(s, out).s
           s2  == IF dirty THEN [s1 EXCEPT !.nodes[out].dirty_ = TRUE] ELSE s1
       IN MarkOutputs(s2, e, dirty, o + 1)

\* What an input that is not order-only does to the edge (the last part
\* of the loop body of RecomputeDirty): a dirty input makes the edge
\* dirty, a clean one may become the most recent input.
RegularInput(s, n, acc) ==
  IF s.nodes[n].dirty_ THEN [acc EXCEPT !.dirty = TRUE]
  ELSE IF acc.most_recent_input = NoNode
          \/ s.nodes[n].mtime_ > s.nodes[acc.most_recent_input].mtime_
       THEN [acc EXCEPT !.most_recent_input = n]
       ELSE acc

\* The local most_recent_input at the end of the loop, kept for edge e.
Noted(s, e, most_recent_input) ==
  [s EXCEPT !.scanned = [x \in DOMAIN @ \cup {e} |->
                           IF x = e THEN most_recent_input ELSE @[x]]]

RECURSIVE RecomputeDirty(_, _)
RECURSIVE VisitInputs(_, _, _, _)

\* The loop over the inputs as it would be if it scanned the in-edge of
\* every input, stat'd by this visit or before.
VisitInputsAlwaysScans(s, e, i, acc) ==
  IF i > Len(s.edges[e].inputs_) THEN [s |-> s, ret |-> TRUE, acc |-> acc]
  ELSE
    LET n  == s.edges[e].inputs_[i]
        st == StatIfNecessary(s, n)
        in_edge == st.s.nodes[n].in_edge_
        rec == IF in_edge # NoEdge THEN RecomputeDirty(st.s, in_edge)
               ELSE IF st.ret
               THEN [s |-> [st.s EXCEPT !.nodes[n].dirty_ =
                               ~exists(st.s.nodes[n])],
                     ret |-> TRUE]
               ELSE [s |-> st.s, ret |-> TRUE]
    IN IF ~rec.ret THEN [s |-> rec.s, ret |-> FALSE, acc |-> acc]
       ELSE
         LET in_edge2 == rec.s.nodes[n].in_edge_
             s1 == IF in_edge2 # NoEdge /\ ~rec.s.edges[in_edge2].outputs_ready_
                   THEN [rec.s EXCEPT !.edges[e].outputs_ready_ = FALSE]
                   ELSE rec.s
             acc1 == IF ~is_order_only(s1.edges[e], i)
                     THEN RegularInput(s1, n, acc) ELSE acc
         IN VisitInputs(s1, e, i + 1, acc1)

\* The loop over the inputs as it would be without the look at
\* outputs_ready_ of the in-edge of an input.
VisitInputsKeepsReady(s, e, i, acc) ==
  IF i > Len(s.edges[e].inputs_) THEN [s |-> s, ret |-> TRUE, acc |-> acc]
  ELSE
    LET n  == s.edges[e].inputs_[i]
        st == StatIfNecessary(s, n)
        in_edge == st.s.nodes[n].in_edge_
        rec == IF st.ret
               THEN IF in_edge # NoEdge THEN RecomputeDirty(st.s, in_edge)
                    ELSE [s |-> [st.s EXCEPT !.nodes[n].dirty_ =
                                    ~exists(st.s.nodes[n])],
                          ret |-> TRUE]
               ELSE [s |-> st.s, ret |-> TRUE]
    IN IF ~rec.ret THEN [s |-> rec.s, ret |-> FALSE, acc |-> acc]
       ELSE VisitInputs(rec.s, e, i + 1,
                        IF ~is_order_only(rec.s.edges[e], i)
                        THEN RegularInput(rec.s, n, acc) ELSE acc)

\* The loop over the inputs of DependencyScan::RecomputeDirty, from input
\* i on; acc holds the locals dirty and most_recent_input.
VisitInputs(s, e, i, acc) ==
  IF i > Len(s.edges[e].inputs_) THEN [s |-> s, ret |-> TRUE, acc |-> acc]
  ELSE
    LET n  == s.edges[e].inputs_[i]
        st == StatIfNecessary(s, n)
        in_edge == st.s.nodes[n].in_edge_
        rec == IF st.ret
               THEN IF in_edge # NoEdge THEN RecomputeDirty(st.s, in_edge)
                    ELSE [s |-> [st.s EXCEPT !.nodes[n].dirty_ =
                                    ~exists(st.s.nodes[n])],
                          ret |-> TRUE]
               ELSE [s |-> st.s, ret |-> TRUE]
    IN IF ~rec.ret THEN [s |-> rec.s, ret |-> FALSE, acc |-> acc]
       ELSE
         LET in_edge2 == rec.s.nodes[n].in_edge_
             s1 == IF in_edge2 # NoEdge /\ ~rec.s.edges[in_edge2].outputs_ready_
                   THEN [rec.s EXCEPT !.edges[e].outputs_ready_ = FALSE]
                   ELSE rec.s
             acc1 == IF ~is_order_only(s1.edges[e], i)
                     THEN RegularInput(s1, n, acc) ELSE acc
         IN VisitInputs(s1, e, i + 1, acc1)

\* ScanOutputs clearing outputs_ready_ of every dirty edge.
ScanOutputsAllNotReady(e, od) ==
  [s |-> [MarkOutputs(od.s, e, od.ret, 1) EXCEPT
            !.edges[e].outputs_ready_ = IF od.ret THEN FALSE ELSE @],
   ret |-> TRUE]

\* DependencyScan::RecomputeDirty after the loop over the inputs, given
\* what RecomputeOutputsDirty found (od.ret is the local dirty): mark the
\* outputs, and clear outputs_ready_ of a dirty edge unless it is a phony
\* edge without inputs.
ScanOutputs(e, od) ==
  [s |-> [MarkOutputs(od.s, e, od.ret, 1) EXCEPT
            !.edges[e].outputs_ready_ =
               IF od.ret /\ ~(is_phony(od.s.edges[e])
                              /\ od.s.edges[e].inputs_ = <<>>)
               THEN FALSE ELSE @],
   ret |-> TRUE]

\* DependencyScan::RecomputeDirty after LoadDeps, given what the loop over
\* the inputs found.
ScanInputs(e, vi) ==
  IF ~vi.ret THEN [s |-> vi.s, ret |-> FALSE]
  ELSE ScanOutputs(e, IF ~vi.acc.dirty
                      THEN RecomputeOutputsDirty(
                             Noted(vi.s, e, vi.acc.most_recent_input), e,
                             vi.acc.most_recent_input)
                      ELSE [s |-> Noted(vi.s, e, vi.acc.most_recent_input),
                            ret |-> TRUE])

\* DependencyScan::RecomputeDirty, given what LoadDeps returned.
ScanDeps(e, ld) ==
  IF ~ld.ret /\ ld.s.err # NoErr THEN [s |-> ld.s, ret |-> FALSE]
  ELSE ScanInputs(e, VisitInputs(
                       [ld.s EXCEPT !.edges[e].deps_missing_ = ~ld.ret],
                       e, 1,
                       [dirty |-> ~ld.ret, most_recent_input |-> NoNode]))

\* DependencyScan::RecomputeDirty; visits counts the calls of a scan, and
\* the model follows a scan for MaxVisits calls.
RecomputeDirty(s, e) ==
  IF s.visits >= MaxVisits THEN [s |-> s, ret |-> FALSE]
  ELSE ScanDeps(e, LoadDeps([s EXCEPT !.visits = @ + 1,
                                      !.edges[e].outputs_ready_ = TRUE,
                                      !.edges[e].deps_missing_ = FALSE], e))

-----------------------------------------------------------------------------
(* Maps with a growing domain (std::map).                                  *)

EmptyMap == [x \in {} |-> FALSE]
Put(f, k, v) == [x \in DOMAIN f \cup {k} |-> IF x = k THEN v ELSE f[x]]
Erase(f, k) == [x \in DOMAIN f \ {k} |-> f[x]]

-----------------------------------------------------------------------------
(* Pool.                                                                   *)

\* Edge::weight.
weight == 1

\* Pool::ShouldDelayEdge: only the pools with a depth delay.
ShouldDelayEdge(pool) == pool.depth_ # 0

\* Pool::EdgeScheduled and Pool::EdgeFinished adjust current_use_.
EdgeScheduled(pool) == [pool EXCEPT !.current_use_ = @ + weight]
PoolEdgeFinished(pool) == [pool EXCEPT !.current_use_ = @ - weight]

\* Pool::DelayEdge: the edge joins the delayed edges, once.
DelayEdge(pool, e) ==
  IF e \in SeqToSet(pool.delayed_) THEN pool
  ELSE [pool EXCEPT !.delayed_ = Append(@, e)]

\* Pool::RetrieveReadyEdges: move delayed edges, from the head, to the
\* ready set for as long as one more fits the depth.
RECURSIVE RetrieveReadyEdges(_, _)
RetrieveReadyEdges(s, p) ==
  LET pool == s.pools[p] IN
  IF pool.delayed_ = <<>> \/ pool.current_use_ + weight > pool.depth_ THEN s
  ELSE RetrieveReadyEdges(
         [s EXCEPT !.ready_ = @ \cup {Head(pool.delayed_)},
                   !.pools[p] = EdgeScheduled([pool EXCEPT !.delayed_ = Tail(@)])],
         p)

-----------------------------------------------------------------------------
(* Plan.                                                                   *)

\* Plan::more_to_do.
more_to_do(s) == s.wanted_edges_ > 0 /\ s.command_edges_ > 0

\* ScheduleWork without the look at the ready set.
ScheduleWorkUnchecked(s, e) ==
  LET p == s.edges[e].pool_ IN
  IF ShouldDelayEdge(s.pools[p])
  THEN RetrieveReadyEdges([s EXCEPT !.pools[p] = DelayEdge(@, e)], p)
  ELSE [s EXCEPT !.pools[p] = EdgeScheduled(@), !.ready_ = @ \cup {e}]

\* Plan::ScheduleWork.
ScheduleWork(s, e) ==
  LET p == s.edges[e].pool_ IN
  IF ShouldDelayEdge(s.pools[p])
  THEN IF e \in s.ready_ THEN s
       ELSE RetrieveReadyEdges([s EXCEPT !.pools[p] = DelayEdge(@, e)], p)
  ELSE [s EXCEPT !.pools[p] = EdgeScheduled(@), !.ready_ = @ \cup {e}]

\* Plan::ResumeDelayedJobs.
ResumeDelayedJobs(s, e) ==
  LET p == s.edges[e].pool_ IN
  RetrieveReadyEdges([s EXCEPT !.pools[p] = PoolEdgeFinished(@)], p)

\* The message of Plan::CheckDependencyCycle: the paths of the stack from
\* position i on, with " -> " between them.
RECURSIVE CyclePath(_, _, _)
CyclePath(stack, start, i) ==
  IF i > Len(stack) THEN <<>>
  ELSE (IF i # start THEN <<" -> ">> ELSE <<>>) \o <<stack[i]>>
       \o CyclePath(stack, start, i + 1)

\* Plan::CheckDependencyCycle: true, with the error set, if node is on
\* the stack.
CheckDependencyCycle(s, node, stack) ==
  IF node \notin SeqToSet(stack) THEN [s |-> s, ret |-> FALSE]
  ELSE LET stack1 == Append(stack, node)
           start == CHOOSE i \in 1..Len(stack1) :
                      /\ stack1[i] = node
                      /\ \A j \in 1..(i - 1) : stack1[j] # node
       IN [s |-> [s EXCEPT !.err = <<"dependency cycle: ">>
                                   \o CyclePath(stack1, start, start)],
           ret |-> TRUE]

\* The error for a dirty leaf as it would be without the consumer.
MissingErrorNoConsumer(node, stack) ==
  <<"'", node, "'", " missing and no known rule to make it">>

\* The error of Plan::AddSubTarget for a dirty leaf.
MissingError(node, stack) ==
  <<"'", node, "'">>
  \o (IF stack # <<>> THEN <<", needed by '", stack[Len(stack)], "',">>
      ELSE <<>>)
  \o <<" missing and no known rule to make it">>

\* The part of Plan::AddSubTarget that turns want from false to true.
MarkWanted(s, edge) ==
  LET s1 == [s EXCEPT !.want_[edge] = TRUE, !.wanted_edges_ = @ + 1,
                      !.marked = @ \cup {edge}]
      s2 == IF AllInputsReady(s1, edge) THEN ScheduleWork(s1, edge) ELSE s1
  IN IF ~is_phony(s2.edges[edge])
     THEN [s2 EXCEPT !.command_edges_ = @ + 1] ELSE s2

RECURSIVE AddSubTarget(_, _, _)
RECURSIVE AddInputs(_, _, _, _)

\* The loop of Plan::AddSubTarget over the inputs of edge, from input i.
AddInputs(s, edge, stack, i) ==
  IF i > Len(s.edges[edge].inputs_) THEN [s |-> s, ret |-> TRUE]
  ELSE LET r == AddSubTarget(s, s.edges[edge].inputs_[i], stack)
       IN IF ~r.ret /\ r.s.err # NoErr THEN [s |-> r.s, ret |-> FALSE]
          ELSE AddInputs(r.s, edge, stack, i + 1)

\* AddSubTarget counting a dirty node's edge each time it is reached.
AddSubTargetCountAgain(s, node, stack) ==
  LET edge == s.nodes[node].in_edge_ IN
  IF edge = NoEdge
  THEN [s |-> IF s.nodes[node].dirty_
              THEN [s EXCEPT !.err = MissingError(node, stack)] ELSE s,
        ret |-> FALSE]
  ELSE
    LET cyc == CheckDependencyCycle(s, node, stack) IN
    IF cyc.ret THEN [s |-> cyc.s, ret |-> FALSE]
    ELSE IF s.edges[edge].outputs_ready_ THEN [s |-> s, ret |-> FALSE]
    ELSE
      LET inserted == edge \notin DOMAIN s.want_
          s1 == IF inserted THEN [s EXCEPT !.want_ = Put(@, edge, FALSE)]
                ELSE s
          s2 == IF s1.nodes[node].dirty_
                THEN MarkWanted(s1, edge) ELSE s1
      IN IF ~inserted THEN [s |-> s2, ret |-> TRUE]
         ELSE AddInputs(s2, edge, Append(stack, node), 1)

\* AddSubTarget entering the edges whose outputs are ready too.
AddSubTargetReadyToo(s, node, stack) ==
  LET edge == s.nodes[node].in_edge_ IN
  IF edge = NoEdge
  THEN [s |-> IF s.nodes[node].dirty_
              THEN [s EXCEPT !.err = MissingError(node, stack)] ELSE s,
        ret |-> FALSE]
  ELSE
    LET cyc == CheckDependencyCycle(s, node, stack) IN
    IF cyc.ret THEN [s |-> cyc.s, ret |-> FALSE]
    ELSE
      LET inserted == edge \notin DOMAIN s.want_
          s1 == IF inserted THEN [s EXCEPT !.want_ = Put(@, edge, FALSE)]
                ELSE s
          s2 == IF s1.nodes[node].dirty_ /\ ~s1.want_[edge]
                THEN MarkWanted(s1, edge) ELSE s1
      IN IF ~inserted THEN [s |-> s2, ret |-> TRUE]
         ELSE AddInputs(s2, edge, Append(stack, node), 1)

\* Plan::AddSubTarget.
AddSubTarget(s, node, stack) ==
  LET edge == s.nodes[node].in_edge_ IN
  IF edge = NoEdge
  THEN [s |-> IF s.nodes[node].dirty_
              THEN [s EXCEPT !.err = MissingError(node, stack)] ELSE s,
        ret |-> FALSE]
  ELSE
    LET cyc == CheckDependencyCycle(s, node, stack) IN
    IF cyc.ret THEN [s |-> cyc.s, ret |-> FALSE]
    ELSE IF s.edges[edge].outputs_ready_ THEN [s |-> s, ret |-> FALSE]
    ELSE
      LET inserted == edge \notin DOMAIN s.want_
          s1 == IF inserted THEN [s EXCEPT !.want_ = Put(@, edge, FALSE)]
                ELSE s
          s2 == IF s1.nodes[node].dirty_ /\ ~s1.want_[edge]
                THEN MarkWanted(s1, edge) ELSE s1
      IN IF ~inserted THEN [s |-> s2, ret |-> TRUE]
         ELSE AddInputs(s2, edge, Append(stack, node), 1)

\* Plan::AddTarget.
AddTarget(s, node) == AddSubTarget(s, node, <<>>)

RECURSIVE EdgeFinished(_, _)
RECURSIVE NodeFinished(_, _, _)
RECURSIVE OutputsFinished(_, _, _)

\* NodeFinished as it would be if it passed over the out-edges that are
\* in the plan with want = false.
NodeFinishedWantedOnly(s, node, k) ==
  IF s.crashed \/ k > Len(s.nodes[node].out_edges_) THEN s
  ELSE LET oe == s.nodes[node].out_edges_[k] IN
       IF oe \in DOMAIN s.want_ /\ s.want_[oe] /\ AllInputsReady(s, oe)
       THEN NodeFinished(ScheduleWork(s, oe), node, k + 1)
       ELSE NodeFinished(s, node, k + 1)

\* NodeFinished as it would be if it scheduled every out-edge of the plan
\* whose inputs are ready, wanted or not.
NodeFinishedScheduleAll(s, node, k) ==
  IF s.crashed \/ k > Len(s.nodes[node].out_edges_) THEN s
  ELSE LET oe == s.nodes[node].out_edges_[k] IN
       IF oe \in DOMAIN s.want_ /\ AllInputsReady(s, oe)
       THEN NodeFinished(ScheduleWork(s, oe), node, k + 1)
       ELSE NodeFinished(s, node, k + 1)

\* Plan::NodeFinished: the loop over the out-edges of node, from the k-th.
NodeFinished(s, node, k) ==
  IF s.crashed \/ k > Len(s.nodes[node].out_edges_) THEN s
  ELSE LET oe == s.nodes[node].out_edges_[k] IN
       IF oe \notin DOMAIN s.want_ THEN NodeFinished(s, node, k + 1)
       ELSE IF AllInputsReady(s, oe)
            THEN IF s.want_[oe]
                 THEN NodeFinished(ScheduleWork(s, oe), node, k + 1)
                 ELSE NodeFinished(EdgeFinished(s, oe), node, k + 1)
            ELSE NodeFinished(s, node, k + 1)

\* The loop of Plan::EdgeFinished over the outputs of the edge.
OutputsFinished(s, e, o) ==
  IF o > Len(s.edges[e].outputs_) THEN s
  ELSE OutputsFinished(NodeFinished(s, s.edges[e].outputs_[o], 1), e, o + 1)

\* EdgeFinished leaving the entry of the edge in want_, with want = false.
EdgeFinishedKeepsEntry(s, e) ==
  IF e \notin DOMAIN s.want_ THEN [s EXCEPT !.crashed = TRUE]
  ELSE
    LET s1 == [s EXCEPT !.wanted_edges_ = IF s.want_[e] THEN @ - 1 ELSE @,
                        !.want_[e] = FALSE,
                        !.edges[e].outputs_ready_ = TRUE,
                        !.finished = @ \cup {e}]
    IN OutputsFinished(ResumeDelayedJobs(s1, e), e, 1)

\* Plan::EdgeFinished; the assert ends the program.
EdgeFinished(s, e) ==
  IF e \notin DOMAIN s.want_ THEN [s EXCEPT !.crashed = TRUE]
  ELSE
    LET s1 == [s EXCEPT !.wanted_edges_ = IF s.want_[e] THEN @ - 1 ELSE @,
                        !.want_ = Erase(@, e),
                        !.edges[e].outputs_ready_ = TRUE,
                        !.finished = @ \cup {e}]
    IN OutputsFinished(ResumeDelayedJobs(s1, e), e, 1)

\* The most recent input CleanNode recomputes: the first of the inputs
\* 1..end with the largest mtime.
RECURSIVE MostRecentInput(_, _, _, _)
MostRecentInput(s, inputs, end, i) ==
  IF i = 0 THEN NoNode
  ELSE LET m == MostRecentInput(s, inputs, end, i - 1) IN
       IF m = NoNode \/ s.nodes[inputs[i]].mtime_ > s.nodes[m].mtime_
       THEN inputs[i] ELSE m

\* The part of Plan::CleanNode that demotes a clean edge, once its
\* outputs were cleaned.
Demote(s, ei) ==
  [s EXCEPT !.want_[ei] = FALSE,
            !.wanted_edges_ = @ - 1,
            !.command_edges_ = IF is_phony(s.edges[ei]) THEN @ ELSE @ - 1,
            !.demoted = @ \cup {ei}]

\* The test of Plan::CleanNode on an out-edge: wanted, deps loaded, and
\* no input before the order-only ones dirty.
Cleanable(s, ei) ==
  /\ ei \in DOMAIN s.want_
  /\ s.want_[ei]
  /\ ~s.edges[ei].deps_missing_
  /\ \A i \in 1..(Len(s.edges[ei].inputs_) - s.edges[ei].order_only_deps_) :
       ~s.nodes[s.edges[ei].inputs_[i]].dirty_

\* The loop over the outputs of a clean edge as it would be if it only
\* cleared the dirty flags, without going on to the edges behind them.
RECURSIVE CleanOutputsNotRecursive(_, _, _)
CleanOutputsNotRecursive(s, ei, o) ==
  IF o > Len(s.edges[ei].outputs_) THEN s
  ELSE CleanOutputsNotRecursive(
         [s EXCEPT !.nodes[s.edges[ei].outputs_[o]].dirty_ = FALSE],
         ei, o + 1)

RECURSIVE CleanNode(_, _)
RECURSIVE CleanOutEdges(_, _, _)
RECURSIVE CleanOutputs(_, _, _)

\* The loop of Plan::CleanNode over the outputs of a clean edge.
CleanOutputs(s, ei, o) ==
  IF o > Len(s.edges[ei].outputs_) THEN s
  ELSE CleanOutputs(CleanNode(s, s.edges[ei].outputs_[o]), ei, o + 1)

\* The loop of Plan::CleanNode over the out-edges of node, from the k-th.
CleanOutEdges(s, node, k) ==
  IF k > Len(s.nodes[node].out_edges_) THEN s
  ELSE LET ei == s.nodes[node].out_edges_[k] IN
       IF ~Cleanable(s, ei) THEN CleanOutEdges(s, node, k + 1)
       ELSE
         LET end == Len(s.edges[ei].inputs_) - s.edges[ei].order_only_deps_
             most_recent_input ==
               MostRecentInput(s, s.edges[ei].inputs_, end, end)
             od == RecomputeOutputsDirty(s, ei, most_recent_input)
         IN IF od.ret THEN CleanOutEdges(od.s, node, k + 1)
            ELSE CleanOutEdges(Demote(CleanOutputs(od.s, ei, 1), ei),
                               node, k + 1)

\* Plan::CleanNode.
CleanNode(s, node) ==
  CleanOutEdges([s EXCEPT !.nodes[node].dirty_ = FALSE], node, 1)

-----------------------------------------------------------------------------
(* Builder: the driver of scan and plan.                                   *)

\* What Plan::AddTarget returned, for a caller that did call it.
Planned(r) == [s |-> r.s, ret |-> r.ret, planned |-> TRUE]

\* Builder::AddTarget after the scan of the target's in-edge returned sc:
\* unless the scan failed or found the edge ready, add to the plan.
AddScanned(node, in_edge, sc) ==
  IF ~sc.ret THEN [s |-> sc.s, ret |-> FALSE, planned |-> FALSE]
  ELSE IF in_edge # NoEdge /\ sc.s.edges[in_edge].outputs_ready_
       THEN [s |-> sc.s, ret |-> TRUE, planned |-> FALSE]
       ELSE Planned(AddTarget(sc.s, node))

\* Builder::AddTarget: stat the target and scan its in-edge.
BuilderAddTarget(s, node) ==
  LET in_edge == s.nodes[node].in_edge_ IN
  AddScanned(node, in_edge,
             IF in_edge # NoEdge
             THEN RecomputeDirty(
                    StatIfNecessary([s EXCEPT !.visits = 0], node).s, in_edge)
             ELSE [s |-> StatIfNecessary([s EXCEPT !.visits = 0], node).s,
                   ret |-> TRUE])

\* RecordCommand as it would be if an output that has an entry kept it.
RECURSIVE RecordCommandOnce(_, _, _, _)
RecordCommandOnce(s, e, restat_mtime, o) ==
  IF o > Len(s.edges[e].outputs_) THEN s
  ELSE RecordCommandOnce(
         IF HasLogEntry(s, s.edges[e].outputs_[o]) THEN s
         ELSE [s EXCEPT !.build_log.log_ =
                 Put(@, s.edges[e].outputs_[o],
                     [command_hash |->
                        HashCommand(EvaluateCommand(s.edges[e], TRUE)),
                      restat_mtime |-> restat_mtime])],
         e, restat_mtime, o + 1)

\* BuildLog::RecordCommand, for the outputs from the o-th on: the entry of
\* each output gets the command (as its hash) and the restat mtime.
RECURSIVE RecordCommand(_, _, _, _)
RecordCommand(s, e, restat_mtime, o) ==
  IF o > Len(s.edges[e].outputs_) THEN s
  ELSE RecordCommand(
         [s EXCEPT !.build_log.log_ =
            Put(@, s.edges[e].outputs_[o],
                [command_hash |->
                   HashCommand(EvaluateCommand(s.edges[e], TRUE)),
                 restat_mtime |-> restat_mtime])],
         e, restat_mtime, o + 1)

\* The restat loop of Builder::FinishCommand: every output whose mtime on
\* disk is the one the scan saw is cleaned.
RECURSIVE CleanUnchanged(_, _, _)
CleanUnchanged(s, e, o) ==
  IF o > Len(s.edges[e].outputs_) THEN s
  ELSE LET out == s.edges[e].outputs_[o] IN
       CleanUnchanged(IF s.nodes[out].mtime_ = s.disk[out]
                      THEN CleanNode(s, out) ELSE s,
                      e, o + 1)

\* The time of the next write to the disk: later than every file.
Now(s) == MaxOf({s.disk[n] : n \in DOMAIN s.disk}) + 1

\* What a successful command of edge e leaves on the disk: its outputs,
\* but for the ones in unchanged, are written now; its depfile names the
\* first output and the headers that exist.
RunCommand(s, e, unchanged) ==
  LET ed == s.edges[e]
      headers == SetToSeq({h \in manifest.extra : s.disk[h] > 0})
  IN [s EXCEPT
        !.disk = [n \in DOMAIN s.disk |->
                    IF n \in SeqToSet(ed.outputs_) \ unchanged
                    THEN Now(s) ELSE s.disk[n]],
        !.depfiles = IF ed.rule.depfile # "" /\ ed.rule.deps = ""
                     THEN [@ EXCEPT ![ed.rule.depfile] =
                             [kind |-> "ok", out |-> <<ed.outputs_[1]>>,
                              ins |-> headers]]
                     ELSE @]

\* The mtime Builder::FinishCommand records for a restat edge: the newest
\* of the outputs that changed and, if an output did not change, of the
\* inputs that are not order-only.
RestatMtime(s, e) ==
  LET ed == s.edges[e]
      outs == SeqToSet(ed.outputs_)
      same == {o \in outs : s.nodes[o].mtime_ = s.disk[o]}
      regular == {ed.inputs_[i] :
                    i \in 1..(Len(ed.inputs_) - ed.order_only_deps_)}
  IN IF ~GetBindingBool(ed, "restat") THEN 0
     ELSE MaxOf({s.disk[o] : o \in outs \ same}
                \cup (IF same # {} THEN {s.disk[n] : n \in regular} ELSE {}))

\* DepsLog::RecordDeps after a command of a deps edge: the headers that
\* exist, with the mtime of the output.
RecordDeps(s, e) ==
  LET ed == s.edges[e] IN
  IF ed.rule.deps = "" THEN s
  ELSE [s EXCEPT !.deps_log =
          Put(@, ed.outputs_[1],
              [mtime |-> s.disk[ed.outputs_[1]],
               nodes |-> SetToSeq({h \in manifest.extra : s.disk[h] > 0})])]

\* Builder::FinishCommand for a command that succeeded (a phony edge has
\* no command and is finished at once).
FinishCommand(s, e, unchanged) ==
  IF is_phony(s.edges[e]) THEN EdgeFinished(s, e)
  ELSE
    LET s1 == RunCommand(s, e, unchanged)
        s2 == IF GetBindingBool(s1.edges[e], "restat")
              THEN CleanUnchanged(s1, e, 1) ELSE s1
        s3 == IF HasBuildLog(s2)
              THEN RecordCommand(s2, e, RestatMtime(s1, e), 1) ELSE s2
    IN EdgeFinished(RecordDeps(s3, e), e)

-----------------------------------------------------------------------------
(* What the program finds when it starts: the disk, the depfiles and the   *)
(* two logs.                                                               *)

\* The times of the files of manifest m; 0 is a file that is not there.
Disks(m) ==
  {[p \in PathsOf(m) |-> IF p \in DOMAIN m.pins THEN m.pins[p] ELSE f[p]] :
     f \in [PathsOf(m) \ DOMAIN m.pins -> 0..MaxTime]}

\* The first output of the edge of m whose depfile is path.
FirstOutputOf(m, path) ==
  LET i == CHOOSE j \in 1..Len(m.builds) : m.builds[j].rule.depfile = path
  IN m.builds[i].outs[1]

\* What may be in the depfile path: nothing, something unreadable or
\* unparseable, or a rule for the right output (written as it is or with
\* "./" before it) or for another output.
DepfileContents(m, path) ==
  { [kind |-> k, out |-> <<>>, ins |-> <<>>] :
      k \in {"missing", "empty", "unreadable", "malformed"} }
  \cup { [kind |-> "ok", out |-> o, ins |-> SetToSeq(m.extra)] :
           o \in { <<FirstOutputOf(m, path)>>, <<".", FirstOutputOf(m, path)>>,
                   <<"other">>, <<".", "other">> } }

Depfiles(m) == [DepfilesOf(m) -> UNION {DepfileContents(m, d) : d \in DepfilesOf(m)}]

DepfilesFor(m) ==
  {f \in Depfiles(m) : \A d \in DepfilesOf(m) : f[d] \in DepfileContents(m, d)}

\* The outputs of the edges of m that keep their deps in the deps log.
DepsOutputs(m) ==
  {m.builds[i].outs[1] : i \in {j \in 1..Len(m.builds) : m.builds[j].rule.deps # ""}}

\* What may be in the deps log: for some of these outputs, an mtime and
\* the headers or nothing.
DepsLogs(m) ==
  UNION { [S -> [mtime : 0..MaxTime, nodes : {<<>>, SetToSeq(m.extra)}]] :
            S \in SUBSET DepsOutputs(m) }

\* The outputs of the edges of m that run a command, with their edge.
CommandOutputs(m) ==
  UNION { SeqToSet(m.builds[i].outs) :
            i \in {j \in 1..Len(m.builds) : ~m.builds[j].rule.phony} }

EdgeOf(m, out) ==
  ParseEdge(m.builds[CHOOSE j \in 1..Len(m.builds) : out \in SeqToSet(m.builds[j].outs)])

\* No build log, and the build logs: an empty one, and the ones with an
\* entry per output that holds the hash of the edge's command (or, with
\* changed, of another command) and some restat mtime.
NoLog == [present |-> FALSE, log_ |-> EmptyMap]

LogOf(m, r, changed) ==
  [present |-> TRUE,
   log_ |-> [o \in CommandOutputs(m) |->
               [command_hash |->
                  IF o \in changed THEN HashCommand(<<"old">>)
                  ELSE HashCommand(EvaluateCommand(EdgeOf(m, o), TRUE)),
                restat_mtime |-> r]]]

BuildLogs(m) ==
  {NoLog, [present |-> TRUE, log_ |-> EmptyMap]}
  \cup {LogOf(m, r, {}) : r \in 0..MaxTime}

\* The build log a build leaves that hashed the commands without the
\* content of their response files.
LogSansRsp(m, r) ==
  [present |-> TRUE,
   log_ |-> [o \in CommandOutputs(m) |->
               [command_hash |->
                  HashCommand(EvaluateCommand(EdgeOf(m, o), FALSE)),
                restat_mtime |-> r]]]

\* The build logs the scan may find: also the ones of other commands.
ScanLogs(m) ==
  BuildLogs(m)
  \cup {LogOf(m, r, CommandOutputs(m)) : r \in 0..MaxTime}
  \cup {LogSansRsp(m, r) : r \in 0..MaxTime}

-----------------------------------------------------------------------------
(* The build log file (build_log.cc).  A file is the sequence of its       *)
(* characters; a position in a buffer is an index into that sequence, and  *)
(* the address of position p of a buffer placed at address base is         *)
(* base + p - 1.  NULL is position 0.                                      *)

TAB == "\t"
NL  == "\n"
SP  == " "
NULL == 0

Digits == <<"0", "1", "2", "3", "4", "5", "6", "7", "8", "9">>

\* The value of a digit character.
DigitValue(c) == CHOOSE d \in 0..9 : Digits[d + 1] = c

IsDigit(c) == \E d \in 1..10 : Digits[d] = c
IsSpace(c) == c \in {SP, TAB, NL}

\* printf("%d") of a number that is not negative.
RECURSIVE Dec(_)
Dec(n) ==
  IF n < 10 THEN <<Digits[n + 1]>>
  ELSE Dec(n \div 10) \o <<Digits[(n % 10) + 1]>>

\* The digits of buf from position p on, as a number (acc so far).
RECURSIVE DigitsAt(_, _, _)
DigitsAt(buf, p, acc) ==
  IF p > Len(buf) \/ ~IsDigit(buf[p]) THEN acc
  ELSE DigitsAt(buf, p + 1, acc * 10 + DigitValue(buf[p]))

\* atoi / atol at position p of buf: white space is skipped, then the
\* digits are read; 0 if there are none.
RECURSIVE atoi(_, _)
atoi(buf, p) ==
  IF p <= Len(buf) /\ IsSpace(buf[p]) THEN atoi(buf, p + 1)
  ELSE DigitsAt(buf, p, 0)

\* kFileSignature without the conversion, and kCurrentVersion.
kFileSignature ==
  <<"#", SP, "n", "i", "n", "j", "a", SP, "l", "o", "g", SP, "v">>
kCurrentVersion == 4

\* fprintf(f, kFileSignature, version).
Signature(version) == kFileSignature \o Dec(version) \o <<NL>>

\* sscanf(line_start, kFileSignature, &log_version): the version the text
\* at position p names, or NULL if it is no signature.  (The files looked
\* at hold the signature as fprintf writes it or not at all, so that the
\* white space a scanf format would skip is not modelled.)
ScanSignature(buf, p) ==
  IF /\ p + Len(kFileSignature) <= Len(buf)
     /\ SubSeq(buf, p, p + Len(kFileSignature) - 1) = kFileSignature
     /\ IsDigit(buf[p + Len(kFileSignature)])
  THEN [matched |-> TRUE, version |-> atoi(buf, p + Len(kFileSignature))]
  ELSE [matched |-> FALSE, version |-> 0]

\* BuildLog::WriteEntry: the line of an entry, as written on a file.
WriteEntry(entry) ==
  Dec(entry.start_time) \o <<TAB>> \o Dec(entry.end_time) \o <<TAB>>
  \o Dec(entry.restat_mtime) \o <<TAB>> \o entry.output \o <<TAB>>
  \o entry.command \o <<NL>>

\* The first position from p on that holds c or is the position limit,
\* where memchrSSE2 has put c as a sentinel.
\* (The positions are looked at 128 at a time.)
RECURSIVE FirstHit(_, _, _, _)
FirstHit(buf, p, c, limit) ==
  IF p >= limit THEN p
  ELSE LET upto == IF p + 127 < limit - 1 THEN p + 127 ELSE limit - 1
           hits == {q \in p..upto : buf[q] = c}
       IN IF hits # {} THEN CHOOSE q \in hits : \A r \in hits : q <= r
          ELSE IF upto = limit - 1 THEN limit
          ELSE FirstHit(buf, upto + 1, c, limit)

\* memchrSSE2: when start is not at a multiple of 16 the first 16 bytes
\* compared are those of the aligned block start lies in, and a hit found
\* there is returned as start plus its index in the block.
memchrSSE2(buf, base, start, c, n) ==
  LET p == FirstHit(buf, start, c, start + n)
      n_unaligned == (base + start - 1) % 16
      r == IF n_unaligned > 0 /\ p <= start + 15 - n_unaligned
           THEN p + n_unaligned ELSE p
  IN IF r < start + n THEN r ELSE NULL

\* LineReader::LineReader on a file: nothing is in the buffer yet.
LineReader(file) ==
  [file |-> file, buf |-> <<>>, line_start |-> 1, line_end |-> NULL,
   ok |-> TRUE]

\* sizeof(buf_) of LineReader, 256 << 10, on the scale of the log files
\* looked at: a multiple of 16 that the logs without an overlong line fit.
kBufSize == 4096

\* fread of at most n bytes of what is left of the file: the bytes read
\* and the bytes left.
fread(file, n) ==
  IF Len(file) <= n THEN [read |-> file, left |-> <<>>]
  ELSE [read |-> SubSeq(file, 1, n), left |-> SubSeq(file, n + 1, Len(file))]

\* LineReader::ReadLine, when no line end was found in the buffer: the
\* rest moves to the start of the buffer and the file is read on.
ReadRest(rd, base) ==
  LET rest == SubSeq(rd.buf, rd.line_start, Len(rd.buf))
      got == fread(rd.file, kBufSize - Len(rest))
  IN [rd EXCEPT !.buf = rest \o got.read, !.file = got.left,
                !.line_start = 1,
                !.line_end = memchrSSE2(rest \o got.read, base, 1, NL,
                                        Len(rest \o got.read))]

\* LineReader::ReadLine, once the buffer holds the line_start to read
\* from.
FindLineEnd(rd, base) ==
  LET line_end == memchrSSE2(rd.buf, base, rd.line_start, NL,
                             Len(rd.buf) - rd.line_start + 1)
  IN IF line_end = NULL THEN ReadRest(rd, base)
     ELSE [rd EXCEPT !.line_end = line_end]

\* LineReader::ReadLine with the buffer at address base; ok is its return
\* value.
ReadLine(rd, base) ==
  IF rd.line_start > Len(rd.buf) \/ rd.line_end = NULL
  THEN IF rd.file = <<>> THEN [rd EXCEPT !.ok = FALSE]
       ELSE FindLineEnd([rd EXCEPT !.buf = fread(rd.file, kBufSize).read,
                                   !.file = fread(rd.file, kBufSize).left,
                                   !.line_start = 1], base)
  ELSE FindLineEnd([rd EXCEPT !.line_start = rd.line_end + 1], base)

\* Nothing is known of where the log file comes from.
NoOrigin ==
  [version |-> 0, entries |-> <<>>, old |-> <<>>, bad |-> <<>>, at |-> 0]

\* BuildLog::BuildLog().
NewBuildLog ==
  [log_ |-> EmptyMap, needs_recompaction_ |-> FALSE, log_file_ |-> FALSE,
   log_version |-> 0, unique_entry_count |-> 0, total_entry_count |-> 0]

\* BuildLog::Load, the end of the loop body: the entry of the line is
\* entered in log_ and counted.
EnterEntry(bl, entry) ==
  [bl EXCEPT
     !.log_ = Put(@, entry.output, entry),
     !.unique_entry_count = IF entry.output \in DOMAIN bl.log_ THEN @
                            ELSE @ + 1,
     !.total_entry_count = @ + 1]

\* BuildLog::Load, the fields of a line from the fourth on: e3 is where
\* the third separator was found.
ParseOutput(bl, rd, base, sep, start_time, end_time, e2, e3) ==
  LET e4 == memchrSSE2(rd.buf, base, e3 + 1, sep, rd.line_end - (e3 + 1))
  IN IF e4 = NULL THEN bl
     ELSE EnterEntry(bl,
            [start_time |-> start_time, end_time |-> end_time,
             restat_mtime |-> atoi(rd.buf, e2 + 1),
             output |-> SubSeq(rd.buf, e3 + 1, e4 - 1),
             command |-> SubSeq(rd.buf, e4 + 1, rd.line_end - 1)])

\* BuildLog::Load, the fields of a line from the second on: e1 is where
\* the first separator was found.
ParseTimes(bl, rd, base, sep, e1) ==
  LET e2 == memchrSSE2(rd.buf, base, e1 + 1, sep, rd.line_end - (e1 + 1))
      e3 == memchrSSE2(rd.buf, base, e2 + 1, sep, rd.line_end - (e2 + 1))
  IN IF e2 = NULL THEN bl
     ELSE IF e3 = NULL THEN bl
     ELSE ParseOutput(bl, rd, base, sep, atoi(rd.buf, rd.line_start),
                      atoi(rd.buf, e1 + 1), e2, e3)

\* BuildLog::Load, the body of the loop for a line that is not the
\* signature.
ParseLine(bl, rd, base) ==
  LET sep == IF bl.log_version >= 4 THEN TAB ELSE SP
      e1 == IF rd.line_end = NULL THEN NULL
            ELSE memchrSSE2(rd.buf, base, rd.line_start, sep,
                            rd.line_end - rd.line_start)
  IN IF e1 = NULL THEN bl ELSE ParseTimes(bl, rd, base, sep, e1)

\* BuildLog::Load, the body of the loop.
LoadLine(bl, rd, base) ==
  IF bl.log_version = 0
  THEN LET sig == ScanSignature(rd.buf, rd.line_start)
       IN IF sig.matched THEN [bl EXCEPT !.log_version = sig.version]
          ELSE ParseLine([bl EXCEPT !.log_version = 1], rd, base)
  ELSE ParseLine(bl, rd, base)

\* BuildLog::Load, one turn of the loop on the log and the reader in lr:
\* the line read is looked at and the next one is read.  Nothing happens
\* once ReadLine has returned false.
LoadTurn(lr, base) ==
  IF ~lr.rd.ok THEN lr
  ELSE [bl |-> LoadLine(lr.bl, lr.rd, base), rd |-> ReadLine(lr.rd, base)]

\* BuildLog::Load, n turns of the loop (the first half of them, then the
\* rest).
RECURSIVE LoadTurns(_, _, _)
LoadTurns(lr, base, n) ==
  IF n = 0 THEN lr
  ELSE IF n = 1 THEN LoadTurn(lr, base)
  ELSE CHOOSE r \in { LoadTurns(h, base, n - (n \div 2)) :
                        h \in {LoadTurns(lr, base, n \div 2)} } : TRUE

\* BuildLog::Load, the loop over the lines: it ends when ReadLine returns
\* false.  Every line read ends behind a line end of its own, or is
\* followed by a read of the file into the whole buffer, so that there
\* are no more turns than line ends and buffers the file fills, and four
\* more.
LoadLines(bl, rd, base) ==
  LoadTurns([bl |-> bl, rd |-> rd], base,
            Count(rd.buf, NL) + Count(rd.file, NL)
              + (Len(rd.file) \div kBufSize) + 4).bl

kMinCompactionEntryCount == 100
kCompactionRatio == 3

\* BuildLog::Load, after the loop, were a log of as many entries as
\* kMinCompactionEntryCount and as many as kCompactionRatio times its
\* outputs rebuilt already.
DecideRecompactionAtLeast(bl) ==
  IF bl.log_version < kCurrentVersion
  THEN [bl EXCEPT !.needs_recompaction_ = TRUE]
  ELSE IF /\ bl.total_entry_count >= kMinCompactionEntryCount
          /\ bl.total_entry_count >= bl.unique_entry_count * kCompactionRatio
       THEN [bl EXCEPT !.needs_recompaction_ = TRUE]
       ELSE bl

\* BuildLog::Load, after the loop: is it time to rebuild the log?
DecideRecompaction(bl) ==
  IF bl.log_version < kCurrentVersion
  THEN [bl EXCEPT !.needs_recompaction_ = TRUE]
  ELSE IF /\ bl.total_entry_count > kMinCompactionEntryCount
          /\ bl.total_entry_count > bl.unique_entry_count * kCompactionRatio
       THEN [bl EXCEPT !.needs_recompaction_ = TRUE]
       ELSE bl

\* BuildLog::Load of a file that is there, read into a buffer at address
\* base.
Load(bl, file, base) ==
  DecideRecompaction(
    LoadLines([bl EXCEPT !.log_version = 0, !.unique_entry_count = 0,
                         !.total_entry_count = 0],
              ReadLine(LineReader(file), base), base))

-----------------------------------------------------------------------------
(* Rules: the bindings of a rule and their references to each other.       *)

\* Rule::IsReservedBinding, and the names in the order of set<string>.
ReservedBindings ==
  <<"command", "depfile", "deps", "description", "generator", "pool",
    "restat", "rspfile", "rspfile_content">>

IsReservedBinding(var) == var \in SeqToSet(ReservedBindings)

\* The elements of a set<string> of reserved names in iteration order.
InOrder(S) == SelectSeq(ReservedBindings, LAMBDA v : v \in S)

\* The tokens of an EvalString: text (RAW) and variable references
\* (SPECIAL).
Raw(text) == [str |-> text, special |-> FALSE]
Special(var) == [str |-> var, special |-> TRUE]

\* CheckRuleBindingDependencyCycle, the collector: the reserved names
\* EvalString::Evaluate looks up in value.
rule_vars_(value) ==
  {value[i].str : i \in {j \in 1..Len(value) :
                           value[j].special /\ IsReservedBinding(value[j].str)}}

\* map<string, string>::operator[] on prev: a name without entry gets the
\* empty string.
PrevOf(prev, c) == IF c \in DOMAIN prev THEN prev[c] ELSE ""

\* CheckRuleBindingDependencyCycle, the loop that writes the cycle from
\* name c on, s having been seen twice: hang is set when the loop has not
\* come back to s after more steps than prev has values, which it then
\* never does.
RECURSIVE CycleFrom(_, _, _, _, _)
CycleFrom(prev, s, c, cycle, n) ==
  IF c = s THEN [hang |-> FALSE, cycle |-> cycle \o <<" -> ", s>>]
  ELSE IF n = 0 THEN [hang |-> TRUE, cycle |-> cycle]
  ELSE CycleFrom(prev, s, PrevOf(prev, c), cycle \o <<" -> ", c>>, n - 1)

\* CheckRuleBindingDependencyCycle, the loop over the queue q.
RECURSIVE WalkQueue(_, _, _, _)
WalkQueue(refs, q, seen, prev) ==
  IF q = <<>> THEN [ret |-> TRUE, hang |-> FALSE, err |-> NoErr]
  ELSE IF Head(q) \in seen
  THEN [ret |-> FALSE,
        hang |-> CycleFrom(prev, Head(q), PrevOf(prev, Head(q)),
                           <<Head(q)>>, Len(ReservedBindings) + 2).hang,
        err |-> <<"found cycle ">>
                \o CycleFrom(prev, Head(q), PrevOf(prev, Head(q)),
                             <<Head(q)>>, Len(ReservedBindings) + 2).cycle]
  ELSE IF Head(q) \notin DOMAIN refs
  THEN WalkQueue(refs, Tail(q), seen \cup {Head(q)}, prev)
  ELSE WalkQueue(refs, Tail(q) \o InOrder(refs[Head(q)]),
                 seen \cup {Head(q)},
                 [v \in DOMAIN prev \cup refs[Head(q)] |->
                    IF v \in refs[Head(q)] THEN Head(q) ELSE prev[v]])

\* ManifestParser::CheckRuleBindingDependencyCycle: refs is
\* reserved_binding_references as the call leaves it; hang is set when
\* the call does not return.
CheckRuleBindingDependencyCycle(key, value, refs) ==
  [refs |-> Put(refs, key, rule_vars_(value))]
  @@ WalkQueue(Put(refs, key, rule_vars_(value)), <<key>>, {}, EmptyMap)

\* ManifestParser::ParseRule, the loop over the bindings of the rule and
\* the checks behind it; the lines are read with ParseLet.  pc tells how
\* the call ends: "parsed" (true), "error" (false) or "hang" (it does
\* not return).
RECURSIVE ParseLets(_, _, _)
RECURSIVE ParseChecked(_, _, _, _)
ParseLets(lexer, bindings, refs) ==
  IF lexer = <<>>
  THEN [lexer |-> lexer, bindings |-> bindings, refs |-> refs,
        pc |-> IF ("rspfile" \in DOMAIN bindings)
                    # ("rspfile_content" \in DOMAIN bindings)
                  \/ "command" \notin DOMAIN bindings
               THEN "error" ELSE "parsed",
        err |-> IF ("rspfile" \in DOMAIN bindings)
                     # ("rspfile_content" \in DOMAIN bindings)
                THEN <<"rspfile and rspfile_content need to be both specified">>
                ELSE IF "command" \notin DOMAIN bindings
                THEN <<"expected 'command =' line">>
                ELSE NoErr]
  ELSE IF ~IsReservedBinding(Head(lexer).key)
  THEN [lexer |-> Tail(lexer), bindings |-> bindings, refs |-> refs,
        pc |-> "error",
        err |-> <<"unexpected variable '", Head(lexer).key, "'">>]
  ELSE ParseChecked(Tail(lexer), bindings, Head(lexer),
                    CheckRuleBindingDependencyCycle(
                      Head(lexer).key, Head(lexer).value, refs))

\* ManifestParser::ParseRule, a reserved binding after the call of
\* CheckRuleBindingDependencyCycle that gave r.
ParseChecked(lexer, bindings, let, r) ==
  IF r.hang
  THEN [lexer |-> lexer, bindings |-> bindings, refs |-> r.refs,
        pc |-> "hang", err |-> NoErr]
  ELSE IF ~r.ret
  THEN [lexer |-> lexer, bindings |-> bindings, refs |-> r.refs,
        pc |-> "error", err |-> r.err]
  ELSE ParseLets(lexer, Put(bindings, let.key, let.value), r.refs)

\* BindingEnv::LookupVariable on the scope a build statement is in.
LookupVariable(scope, var) == IF var \in DOMAIN scope THEN scope[var] ELSE <<>>

\* EdgeEnv::LookupVariable for a name that is not in, in_newline or out,
\* with BindingEnv::LookupWithFallback: the binding of the edge, else the
\* binding of the rule evaluated in the EdgeEnv, else the scope around.
\* The strings are sequences of pieces.
RECURSIVE EdgeLookupVariable(_, _, _, _)
RECURSIVE Evaluate(_, _, _, _)
\* EdgeLookupVariable asking the rule before the build statement.
EdgeLookupVariableRuleFirst(env, bindings, scope, var) ==
  IF var \in DOMAIN bindings
  THEN Evaluate(bindings[var], env, bindings, scope)
  ELSE IF var \in DOMAIN env THEN env[var]
  ELSE LookupVariable(scope, var)

EdgeLookupVariable(env, bindings, scope, var) ==
  IF var \in DOMAIN env THEN env[var]
  ELSE IF var \in DOMAIN bindings
  THEN Evaluate(bindings[var], env, bindings, scope)
  ELSE LookupVariable(scope, var)

\* EvalString::Evaluate in the EdgeEnv of an edge.
Evaluate(value, env, bindings, scope) ==
  IF value = <<>> THEN <<>>
  ELSE (IF Head(value).special
        THEN EdgeLookupVariable(env, bindings, scope, Head(value).str)
        ELSE <<Head(value).str>>)
       \o Evaluate(Tail(value), env, bindings, scope)

-----------------------------------------------------------------------------
(* LinePrinter: the status line and the output of finished commands.       *)

\* What printf("\r") and printf("\x1B[K") write, each as one character.
CR == "\r"
ClearToEndOfLine == "ESC[K"

\* LinePrinter::Print: the width of the terminal ioctl(TIOCGWINSZ) gave;
\* 0 when it gave none, and then the line is written as it is.
term_width == 0

\* LinePrinter::LinePrinter on a terminal of type terminal_type.
NewLinePrinter(terminal_type) ==
  [terminal_type_ |-> terminal_type, have_blank_line_ |-> TRUE,
   console_locked_ |-> FALSE, line_buffer_ |-> <<>>, line_type_ |-> "FULL",
   output_buffer_ |-> <<>>]

is_smart_terminal(lp) == lp.terminal_type_ # "TERM_DUMB"

\* LinePrinter::Print.  The result is the printer and the terminal after.
LinePrinterPrint(lp, out, to_print, type) ==
  IF lp.console_locked_
  THEN [lp |-> [lp EXCEPT !.line_buffer_ = to_print, !.line_type_ = type],
        out |-> out]
  ELSE IF is_smart_terminal(lp) /\ type = "ELIDE"
  THEN [lp |-> [lp EXCEPT !.have_blank_line_ = FALSE],
        out |-> IF lp.terminal_type_ = "TERM_ANSI"
                THEN out \o <<CR>> \o to_print \o <<ClearToEndOfLine>>
                ELSE out \o <<CR>>]
  ELSE [lp |-> lp,
        out |-> out \o (IF is_smart_terminal(lp) THEN <<CR>> ELSE <<>>)
                    \o to_print \o <<NL>>]

\* PrintOrBuffer writing through a locked console.
PrintOrBufferUnlocked(lp, out, data) == [lp |-> lp, out |-> out \o data]

\* LinePrinter::PrintOrBuffer.
PrintOrBuffer(lp, out, data) ==
  IF lp.console_locked_
  THEN [lp |-> [lp EXCEPT !.output_buffer_ = @ \o data], out |-> out]
  ELSE [lp |-> lp, out |-> out \o data]

\* LinePrinter::PrintOnNewLine after the pending status line was moved to
\* the output buffer: the line feed, the text, have_blank_line_.
PrintOnNewLineText(lp, out, to_print) ==
  [lp |-> [PrintOrBuffer(lp, out,
                         (IF lp.have_blank_line_ THEN <<>> ELSE <<NL>>)
                           \o to_print).lp
             EXCEPT !.have_blank_line_ =
                      to_print = <<>> \/ to_print[Len(to_print)] = NL],
   out |-> PrintOrBuffer(lp, out,
                         (IF lp.have_blank_line_ THEN <<>> ELSE <<NL>>)
                           \o to_print).out]

\* LinePrinter::PrintOnNewLine.
PrintOnNewLine(lp, out, to_print) ==
  IF lp.console_locked_ /\ lp.line_buffer_ # <<>>
  THEN PrintOnNewLineText(
         [lp EXCEPT !.output_buffer_ = @ \o lp.line_buffer_ \o <<NL>>,
                    !.line_buffer_ = <<>>], out, to_print)
  ELSE PrintOnNewLineText(lp, out, to_print)

\* LinePrinter::SetConsoleLocked(false) on a locked console, after
\* console_locked_ was set and PrintOnNewLine(output_buffer_) gave r.
Unlocked(r) ==
  IF r.lp.line_buffer_ # <<>>
  THEN [lp |-> [LinePrinterPrint(r.lp, r.out, r.lp.line_buffer_,
                                 r.lp.line_type_).lp
                  EXCEPT !.output_buffer_ = <<>>, !.line_buffer_ = <<>>],
        out |-> LinePrinterPrint(r.lp, r.out, r.lp.line_buffer_,
                                 r.lp.line_type_).out]
  ELSE [lp |-> [r.lp EXCEPT !.output_buffer_ = <<>>, !.line_buffer_ = <<>>],
        out |-> r.out]

\* LinePrinter::SetConsoleLocked.
SetConsoleLocked(lp, out, locked) ==
  IF locked = lp.console_locked_ THEN [lp |-> lp, out |-> out]
  ELSE IF locked
  THEN [lp |-> [PrintOnNewLine(lp, out, <<>>).lp
                  EXCEPT !.console_locked_ = TRUE],
        out |-> PrintOnNewLine(lp, out, <<>>).out]
  ELSE Unlocked(PrintOnNewLine([lp EXCEPT !.console_locked_ = FALSE], out,
                               lp.output_buffer_))

-----------------------------------------------------------------------------
(* The state machine.                                                      *)

\* BuildConfig::BuildConfig(): one failing command ends the build.
num_failures_allowed == 1

\* The program state the operators work on.
Cur ==
  [nodes |-> nodes, edges |-> edges, disk |-> disk, depfiles |-> depfiles,
   build_log |-> build_log, deps_log |-> deps_log, want_ |-> want_,
   ready_ |-> ready_, command_edges_ |-> command_edges_,
   wanted_edges_ |-> wanted_edges_, pools |-> pools, err |-> err,
   finished |-> finished, marked |-> marked, demoted |-> demoted,
   crashed |-> crashed, scanned |-> scanned, visits |-> visits]

Apply(s) ==
  /\ nodes' = s.nodes /\ edges' = s.edges /\ disk' = s.disk
  /\ depfiles' = s.depfiles /\ build_log' = s.build_log
  /\ deps_log' = s.deps_log /\ want_' = s.want_ /\ ready_' = s.ready_
  /\ command_edges_' = s.command_edges_ /\ wanted_edges_' = s.wanted_edges_
  /\ pools' = s.pools /\ err' = s.err /\ finished' = s.finished
  /\ marked' = s.marked /\ demoted' = s.demoted /\ crashed' = s.crashed
  /\ scanned' = s.scanned /\ visits' = s.visits

NoCall ==
  [op |-> "", node |-> NoNode, edge |-> NoEdge, ret |-> FALSE,
   planned |-> FALSE, cleaned |-> {}, wanted |-> {}, demoted |-> {},
   wanted_edges_ |-> 0, command_edges_ |-> 0]

NoProbe ==
  [edge |-> NoEdge, most_recent_input |-> NoNode, output |-> NoNode,
   ret |-> FALSE]

\* The state of a program that has parsed manifest m (Plan::Plan()),
\* but for the build log file.
FreshEngine(m) ==
  /\ nodes = ParseNodes(m) /\ edges = ParseEdges(m) /\ pools = ParsePools(m)
  /\ want_ = EmptyMap /\ ready_ = {}
  /\ command_edges_ = 0 /\ wanted_edges_ = 0
  /\ targets = <<>>
  /\ running = {} /\ started = {} /\ finished = {} /\ marked = {}
  /\ demoted = {} /\ scanned = EmptyMap /\ visits = 0 /\ failed = {}
  /\ crashed = FALSE /\ last = NoCall /\ probe = NoProbe

\* No Edge::GetBinding call was made.
NoLookup == [key |-> "", env |-> EmptyMap, scope |-> EmptyMap, ret |-> <<>>]

\* No rule is being read.
\* No LinePrinter call was made.
NoPrinterCall == [op |-> "", during |-> <<>>, before |-> 0, calls |-> 0]

\* Nothing was written: the printer of a dumb terminal at rest.
NoOutput ==
  /\ printer = NewLinePrinter("TERM_DUMB")
  /\ stdout = <<>>
  /\ plog = NoPrinterCall

NoRule ==
  /\ lexer_ = <<>> /\ bindings_ = EmptyMap
  /\ reserved_binding_references = EmptyMap
  /\ lookup = NoLookup
  /\ NoOutput

\* The state of a program that has parsed manifest m (Plan::Plan()).
Fresh(m) ==
  /\ FreshEngine(m)
  /\ err = NoErr /\ pc = "add"
  /\ fs = EmptyMap /\ blog = NewBuildLog /\ buf_base = 0
  /\ origin = NoOrigin
  /\ NoRule

Manifests ==
  {MChain, MPool, MCycleMulti, MCycle, MRestat, MRestatPool, MPhony,
   MOrderOnly, MDeps, MRedundant}

Init ==
  \E m \in Manifests :
    /\ manifest = m
    /\ invocation = 1
    /\ goal \in m.goals
    /\ disk \in Disks(m)
    /\ depfiles \in DepfilesFor(m)
    /\ build_log \in BuildLogs(m)
    /\ deps_log \in DepsLogs(m)
    /\ built = {}
    /\ failures_remaining = num_failures_allowed
    /\ Fresh(m)

\* ninja.cc requests the targets of the command line one by one with
\* Builder::AddTarget; an error ends the program, a target that is up to
\* date is not one.
AddTargetStep ==
  /\ pc = "add" /\ ~crashed
  /\ Len(targets) < Len(goal)
  /\ \E r \in {BuilderAddTarget(Cur, goal[Len(targets) + 1])} :
        /\ Apply(r.s)
        /\ targets' = Append(targets, goal[Len(targets) + 1])
        /\ last' = [NoCall EXCEPT !.op = "AddTarget",
                                  !.node = goal[Len(targets) + 1],
                                  !.ret = r.ret, !.planned = r.planned]
        /\ pc' = IF ~r.ret /\ r.s.err # NoErr THEN "failed"
                 ELSE IF Len(targets) + 1 = Len(goal) THEN "build"
                 ELSE "add"
  /\ UNCHANGED <<manifest, lexer_, bindings_, reserved_binding_references, lookup, printer, stdout, plog, fs, blog, buf_base, origin, failures_remaining, failed, invocation, goal, running, started, built, probe>>

\* Plan::FindWork, called by Builder::Build for as long as it returns an
\* edge: some edge of the ready set leaves it and its command starts.
FindWork ==
  /\ pc = "build" /\ ~crashed
  /\ failures_remaining > 0
  /\ \E e \in ready_ :
       /\ ready_' = ready_ \ {e}
       /\ running' = running \cup {e}
       /\ started' = started \cup {e}
       /\ last' = [NoCall EXCEPT !.op = "FindWork", !.edge = e, !.ret = TRUE]
  /\ UNCHANGED <<manifest, lexer_, bindings_, reserved_binding_references, lookup, printer, stdout, plog, fs, blog, buf_base, origin, failures_remaining, failed, nodes, edges, disk, depfiles, build_log, deps_log,
                 want_, command_edges_, wanted_edges_, pools, err, pc,
                 invocation, targets, goal, finished, marked, demoted, crashed,
                 built, scanned, visits, probe>>

\* The outputs a command of edge e may leave as they are: none, unless
\* the rule is a restat rule and the output is there.
MayLeave(e) ==
  IF GetBindingBool(edges[e], "restat")
  THEN SUBSET {o \in SeqToSet(edges[e].outputs_) : disk[o] > 0}
  ELSE {{}}

\* Builder::FinishCommand for a running edge whose command succeeded.
FinishCommandStep ==
  /\ pc = "build" /\ ~crashed
  /\ \E e \in running : \E unchanged \in MayLeave(e) :
     \E s \in {FinishCommand(Cur, e, unchanged)} :
       /\ Apply(s)
       /\ running' = running \ {e}
       /\ last' = [NoCall EXCEPT
                     !.op = "FinishCommand", !.edge = e, !.ret = TRUE,
                     !.cleaned = IF GetBindingBool(edges[e], "restat")
                                 THEN {o \in unchanged : nodes[o].mtime_ = disk[o]}
                                 ELSE {},
                     !.wanted = {w \in DOMAIN want_ : want_[w]},
                     !.demoted = demoted,
                     !.wanted_edges_ = wanted_edges_,
                     !.command_edges_ = command_edges_]
  /\ UNCHANGED <<manifest, lexer_, bindings_, reserved_binding_references, lookup, printer, stdout, plog, fs, blog, buf_base, origin, failures_remaining, failed, pc, invocation, targets, goal, started, built, probe>>

\* Builder::Build returns: nothing more to do, no work and nothing
\* running.
BuildDone ==
  /\ pc = "build" /\ ~crashed
  /\ ~more_to_do(Cur) /\ ready_ = {} /\ running = {}
  /\ pc' = "done"
  /\ last' = [NoCall EXCEPT !.op = "Build", !.ret = TRUE]
  /\ UNCHANGED <<manifest, lexer_, bindings_, reserved_binding_references, lookup, printer, stdout, plog, fs, blog, buf_base, origin, failures_remaining, failed, nodes, edges, disk, depfiles, build_log, deps_log,
                 want_, ready_, command_edges_, wanted_edges_, pools, err,
                 invocation, targets, goal, running, started, finished, marked,
                 demoted, crashed, built, scanned, visits, probe>>

\* Builder::Build gives up: more to do, nothing running and no work.
BuildStuck ==
  /\ pc = "build" /\ ~crashed /\ failed = {}
  /\ more_to_do(Cur) /\ ready_ = {} /\ running = {}
  /\ pc' = "stuck"
  /\ err' = <<"stuck [this is a bug]">>
  /\ last' = [NoCall EXCEPT !.op = "Build", !.ret = FALSE]
  /\ UNCHANGED <<manifest, lexer_, bindings_, reserved_binding_references, lookup, printer, stdout, plog, fs, blog, buf_base, origin, failures_remaining, failed, nodes, edges, disk, depfiles, build_log, deps_log,
                 want_, ready_, command_edges_, wanted_edges_, pools,
                 invocation, targets, goal, running, started, finished, marked,
                 demoted, crashed, built, scanned, visits, probe>>

\* The program is run again on the disk and the logs the first run left.
Reinvoke ==
  /\ pc = "done" /\ ~crashed
  /\ invocation = 1
  /\ invocation' = 2
  /\ built' = {e \in started : ~is_phony(edges[e])}
  /\ nodes' = ParseNodes(manifest) /\ edges' = ParseEdges(manifest)
  /\ pools' = ParsePools(manifest)
  /\ want_' = EmptyMap /\ ready_' = {}
  /\ command_edges_' = 0 /\ wanted_edges_' = 0
  /\ err' = NoErr /\ pc' = "add" /\ targets' = <<>>
  /\ running' = {} /\ started' = {} /\ finished' = {} /\ marked' = {}
  /\ demoted' = {} /\ scanned' = EmptyMap /\ visits' = 0
  /\ last' = NoCall
  /\ UNCHANGED <<manifest, lexer_, bindings_, reserved_binding_references, lookup, printer, stdout, plog, fs, blog, buf_base, origin, failures_remaining, failed, disk, depfiles, build_log, deps_log, goal,
                 crashed, probe>>

Next ==
  \/ AddTargetStep
  \/ FindWork
  \/ FinishCommandStep
  \/ BuildDone
  \/ BuildStuck
  \/ Reinvoke

Spec == Init /\ [][Next]_vars

\* The flags the scan computes: dirty_ of every node, outputs_ready_ and
\* deps_missing_ of every edge.
Flags(s) ==
  [dirty |-> [n \in DOMAIN s.nodes |-> s.nodes[n].dirty_],
   outputs_ready |-> [e \in 1..Len(s.edges) |-> s.edges[e].outputs_ready_],
   deps_missing |-> [e \in 1..Len(s.edges) |-> s.edges[e].deps_missing_]]

\* Node::StatIfNecessary on an output of some edge, before any scan.
StatStep ==
  /\ pc = "add" /\ targets = <<>>
  /\ \E e \in 1..Len(edges) : \E o \in 1..Len(edges[e].outputs_) :
       /\ ~status_known(nodes[edges[e].outputs_[o]])
       /\ Apply(StatIfNecessary(Cur, edges[e].outputs_[o]).s)
       /\ last' = [NoCall EXCEPT !.op = "StatIfNecessary",
                                 !.node = edges[e].outputs_[o], !.ret = TRUE]
  /\ UNCHANGED <<manifest, lexer_, bindings_, reserved_binding_references, lookup, printer, stdout, plog, fs, blog, buf_base, origin, failures_remaining, failed, pc, invocation,
                 targets, goal, running, started, built, probe>>

\* DependencyScan::RecomputeDirty called on an edge, and then once more on
\* the same edge.  probe keeps the flags the call found and whether the
\* first output of the edge had been stat'd before the first call.
RecomputeDirtyStep ==
  /\ pc = "add" /\ Len(targets) < 2
  /\ \E e \in 1..Len(edges) :
       /\ targets # <<>> => e = last.edge
       /\ \E r \in {RecomputeDirty([Cur EXCEPT !.visits = 0], e)} :
            /\ Apply(r.s)
            /\ last' = [NoCall EXCEPT !.op = "RecomputeDirty", !.edge = e,
                                      !.ret = r.ret]
            /\ probe' = [edge |-> e, most_recent_input |-> NoNode,
                         output |-> edges[e].outputs_[1], ret |-> r.ret,
                         flags |-> Flags(Cur),
                         known |-> IF targets = <<>>
                                   THEN status_known(nodes[edges[e].outputs_[1]])
                                   ELSE probe.known]
       /\ targets' = Append(targets, edges[e].outputs_[1])
  /\ UNCHANGED <<manifest, lexer_, bindings_, reserved_binding_references, lookup, printer, stdout, plog, fs, blog, buf_base, origin, failures_remaining, failed, pc, invocation, goal,
                 running, started, built>>

\* Builder::Build for a running edge whose command failed: one failure
\* fewer is allowed, and the plan is told nothing.
FailCommandStep ==
  /\ pc = "build" /\ ~crashed
  /\ \E e \in running :
       /\ ~is_phony(edges[e])
       /\ running' = running \ {e}
       /\ failed' = failed \cup {e}
       /\ failures_remaining' =
            IF failures_remaining > 0 THEN failures_remaining - 1 ELSE 0
       /\ last' = [NoCall EXCEPT !.op = "FinishCommand", !.edge = e,
                                 !.ret = FALSE]
  /\ UNCHANGED <<manifest, lexer_, bindings_, reserved_binding_references, lookup, printer, stdout, plog, fs, blog, buf_base, origin, nodes, edges, disk, depfiles, build_log, deps_log,
                 want_, ready_, command_edges_, wanted_edges_, pools, err, pc,
                 invocation, targets, goal, started, finished, marked, demoted,
                 crashed, built, scanned, visits, probe>>

\* Builder::Build returns false after a failure: no failure is allowed any
\* more or there is no work left to start, and the running commands have
\* been waited for.
BuildFailed ==
  /\ pc = "build" /\ ~crashed
  /\ failed # {} /\ running = {}
  /\ failures_remaining = 0 \/ ready_ = {}
  /\ more_to_do(Cur)
  /\ pc' = "failed"
  /\ last' = [NoCall EXCEPT !.op = "Build", !.ret = FALSE]
  /\ UNCHANGED <<manifest, lexer_, bindings_, reserved_binding_references, lookup, printer, stdout, plog, fs, blog, buf_base, origin, failures_remaining, failed, nodes, edges, disk,
                 depfiles, build_log, deps_log, want_, ready_, command_edges_,
                 wanted_edges_, pools, err, invocation, targets, goal, running,
                 started, finished, marked, demoted, crashed, built, scanned, visits,
                 probe>>

\* The manifests builds with failing commands are looked at with.
FailManifests == {MChain, MPool, MRestatPool, MOrderOnly}

FailInit ==
  \E m \in FailManifests :
    /\ manifest = m
    /\ invocation = 1
    /\ goal \in m.goals
    /\ disk \in Disks(m)
    /\ depfiles \in DepfilesFor(m)
    /\ build_log \in BuildLogs(m)
    /\ deps_log \in DepsLogs(m)
    /\ built = {}
    /\ failures_remaining \in 1..MaxFailures
    /\ Fresh(m)

FailNext ==
  \/ AddTargetStep
  \/ FindWork
  \/ FinishCommandStep
  \/ FailCommandStep
  \/ BuildDone
  \/ BuildFailed

FailSpec == FailInit /\ [][FailNext]_vars

-----------------------------------------------------------------------------
(* The program and its build log file.                                     *)

\* The path of the log and of the file Recompact writes.
kLogPath == ".ninja_log"
kTempPath == ".ninja_log.recompact"

\* The line of an entry as a log of the given version holds it: the
\* fields are separated by a space before version 4.
EntryLine(entry, version) ==
  IF version >= 4 THEN WriteEntry(entry)
  ELSE Dec(entry.start_time) \o <<SP>> \o Dec(entry.end_time) \o <<SP>>
       \o Dec(entry.restat_mtime) \o <<SP>> \o entry.output \o <<SP>>
       \o entry.command \o <<NL>>

\* The lines of a sequence of entries (of its first half, then of the
\* rest).
RECURSIVE EntryLines(_, _)
EntryLines(entries, version) ==
  IF entries = <<>> THEN <<>>
  ELSE IF Len(entries) = 1 THEN EntryLine(entries[1], version)
  ELSE EntryLines(SubSeq(entries, 1, Len(entries) \div 2), version)
       \o EntryLines(SubSeq(entries, (Len(entries) \div 2) + 1,
                            Len(entries)), version)

\* A log file of the given version (0: a file without a signature line)
\* with the given entries.
LogFile(version, entries) ==
  (IF version = 0 THEN <<>> ELSE Signature(version))
  \o EntryLines(entries, IF version = 0 THEN 1 ELSE version)

\* A log file of the given version with the line bad behind the first at
\* of the given entries.
LogFileWith(version, entries, bad, at) ==
  (IF version = 0 THEN <<>> ELSE Signature(version))
  \o EntryLines(SubSeq(entries, 1, at), IF version = 0 THEN 1 ELSE version)
  \o bad
  \o EntryLines(SubSeq(entries, at + 1, Len(entries)),
                IF version = 0 THEN 1 ELSE version)

\* Lines that are no entries of a log of the given version: a word, and a
\* line that ends behind the output.
BadLines(version) ==
  LET sep == IF version >= 4 THEN TAB ELSE SP
  IN {<<"b", NL>>,
      Dec(1) \o <<sep>> \o Dec(12) \o <<sep>> \o Dec(3) \o <<sep>>
        \o <<"b", NL>>}

\* The ends of overlong commands: a word, and words that look like the
\* fields of an entry of output c.
Tails(version) ==
  LET sep == IF version >= 4 THEN TAB ELSE SP
  IN {<<"y">>,
      Dec(5) \o <<sep>> \o Dec(6) \o <<sep>> \o Dec(7) \o <<sep>>
        \o <<"c", sep, "d">>}

\* The line of an entry of output b whose command is longer than the
\* buffer of LineReader and ends with tail.
OverlongLine(version, tail) ==
  EntryLine([start_time |-> 1, end_time |-> 12, restat_mtime |-> 3,
             output |-> <<"b">>,
             command |-> Repeat("x", kBufSize) \o tail], version)

\* The commands and the entries the program records.
ShortCommand == <<"c">>
LongCommand ==
  <<"c", "c", SP, "-", "c", SP, "a", ".", "c", SP, "-", "o", SP, "a",
    ".", "o", SP, "-", "O", "2">>

LogEntries ==
  [start_time : {1}, end_time : {12}, restat_mtime : {3},
   output : {<<"a">>, <<"b">>}, command : {ShortCommand, LongCommand}]

\* The entry of a command whose arguments are separated by tabs and name
\* the number id; its line is 32 characters long.
NumberedEntry(id) ==
  LET word == <<Digits[(id \div 10) + 1], Digits[(id % 10) + 1]>>
  IN [start_time |-> 1, end_time |-> 2, restat_mtime |-> 0,
      output |-> <<"P">>,
      command |-> word \o <<TAB>> \o word \o <<TAB>> \o word \o <<TAB>>
                  \o word \o Repeat("x", 12)]

\* n entries of commands numbered 0..k-1 in turn.
NumberedEntries(n, k) == [i \in 1..n |-> NumberedEntry(i % k)]

\* Logs at the limits of the compaction policy: as many entries as
\* kMinCompactionEntryCount and one more, with the same command; and
\* kCompactionRatio times as many entries as commands and one more, for
\* just enough commands to get above kMinCompactionEntryCount.
LongLogs ==
  LET k == (kMinCompactionEntryCount \div kCompactionRatio) + 1
  IN {NumberedEntries(kMinCompactionEntryCount, 1),
      NumberedEntries(kMinCompactionEntryCount + 1, 1),
      NumberedEntries(k * kCompactionRatio, k),
      NumberedEntries(k * kCompactionRatio + 1, k)}

\* The sequences of at most n entries.
RECURSIVE EntrySeqs(_)
EntrySeqs(n) ==
  IF n = 0 THEN {<<>>}
  ELSE EntrySeqs(n - 1)
       \cup {Append(es, e) : es \in {x \in EntrySeqs(n - 1) : Len(x) = n - 1},
                             e \in LogEntries}

\* The versions of the log files found: none (no signature), the one
\* before the current one, the current one and the one after it.
Versions == {0, kCurrentVersion - 1, kCurrentVersion, kCurrentVersion + 1}

\* LineReader is a local of Load, its buffer comes after a pointer.
Alignments == {0, 8}

LogInit ==
  /\ manifest = MChain
  /\ invocation = 1
  /\ goal = <<>>
  /\ disk = [n \in DOMAIN ParseNodes(MChain) |-> 0]
  /\ depfiles = EmptyMap
  /\ build_log = NoLog
  /\ deps_log = EmptyMap
  /\ built = {}
  /\ failures_remaining = num_failures_allowed
  /\ FreshEngine(MChain)
  /\ err = NoErr /\ pc = "load"
  /\ blog = NewBuildLog
  /\ NoRule
  /\ buf_base \in Alignments
  /\ \/ fs = EmptyMap /\ origin = NoOrigin
     \/ fs = Put(EmptyMap, kLogPath, <<>>) /\ origin = NoOrigin
     \/ \E version \in Versions : \E entries \in EntrySeqs(MaxEntries) :
          /\ fs = Put(EmptyMap, kLogPath, LogFile(version, entries))
          /\ origin = [version |-> version, entries |-> entries,
                       old |-> <<>>, bad |-> <<>>, at |-> 0]
     \/ \E entries \in LongLogs :
          /\ fs = Put(EmptyMap, kLogPath, LogFile(kCurrentVersion, entries))
          /\ origin = [version |-> kCurrentVersion, entries |-> entries,
                       old |-> <<>>, bad |-> <<>>, at |-> 0]
     \/ \E version \in {kCurrentVersion - 1, kCurrentVersion} :
          \E entries \in EntrySeqs(MaxEntries) :
            \E at \in 0..Len(entries) : \E bad \in BadLines(version) :
              /\ fs = Put(EmptyMap, kLogPath,
                          LogFileWith(version, entries, bad, at))
              /\ origin = [version |-> version, entries |-> entries,
                           old |-> <<>>, bad |-> bad, at |-> at]
     \/ \E version \in {kCurrentVersion - 1, kCurrentVersion} :
          \E entries \in EntrySeqs(1) :
            \E at \in 0..Len(entries) : \E tail \in Tails(version) :
              /\ fs = Put(EmptyMap, kLogPath,
                          LogFileWith(version, entries,
                                      OverlongLine(version, tail), at))
              /\ origin = [version |-> version, entries |-> entries,
                           old |-> <<>>,
                           bad |-> OverlongLine(version, tail), at |-> at]

\* What the program has in hand of the log: unchanged by the engine.
LogUnchanged ==
  UNCHANGED <<manifest, nodes, edges, disk, depfiles, build_log, deps_log,
              want_, ready_, command_edges_, wanted_edges_, pools, targets,
              goal, running, started, finished, marked, demoted, crashed,
              built, scanned, visits, failures_remaining, failed, last, probe,
              lexer_, bindings_, reserved_binding_references, lookup,
              printer, stdout, plog>>

\* BuildLog::Load: a log that is not there is no error.
LoadStep ==
  /\ pc = "load"
  /\ pc' = "loaded"
  /\ blog' = IF kLogPath \in DOMAIN fs
             THEN Load(blog, fs[kLogPath], buf_base)
             ELSE blog
  /\ origin' = [origin EXCEPT !.old = IF kLogPath \in DOMAIN fs
                                      THEN fs[kLogPath] ELSE <<>>]
  /\ UNCHANGED <<fs, buf_base, err, invocation>>
  /\ LogUnchanged

\* BuildLog::OpenForWrite finds needs_recompaction_ set and calls
\* Recompact, which opens the temporary file for writing.
RecompactOpen ==
  /\ pc = "loaded" /\ blog.needs_recompaction_
  /\ \/ /\ fs' = Put(fs, kTempPath, <<>>)
        /\ pc' = "write" /\ err' = err
     \/ /\ fs' = fs
        /\ pc' = "error" /\ err' = <<"strerror">>
  /\ blog' = [blog EXCEPT !.log_file_ = FALSE]
  /\ UNCHANGED <<buf_base, origin, invocation>>
  /\ LogUnchanged

\* The entries of log_ in the order Recompact finds them.
LogSeq(bl) == SetToSeq({bl.log_[o] : o \in DOMAIN bl.log_})

\* BuildLog::Recompact writes the signature and the entries of log_ on the
\* temporary file and closes it.
RecompactWrite ==
  /\ pc = "write"
  /\ \/ /\ fs' = [fs EXCEPT ![kTempPath] =
                    Signature(kCurrentVersion)
                    \o EntryLines(LogSeq(blog), kCurrentVersion)]
        /\ pc' = "unlink" /\ err' = err
     \/ /\ fs' = fs
        /\ pc' = "error" /\ err' = <<"strerror">>
  /\ UNCHANGED <<blog, buf_base, origin, invocation>>
  /\ LogUnchanged

\* BuildLog::Recompact unlinks the log.
RecompactUnlink ==
  /\ pc = "unlink"
  /\ \/ /\ fs' = Erase(fs, kLogPath)
        /\ pc' = "rename" /\ err' = err
     \/ /\ fs' = fs
        /\ pc' = "error" /\ err' = <<"strerror">>
  /\ UNCHANGED <<blog, buf_base, origin, invocation>>
  /\ LogUnchanged

\* BuildLog::Recompact renames the temporary file to the log.
RecompactRename ==
  /\ pc = "rename"
  /\ \/ /\ fs' = Erase(Put(fs, kLogPath, fs[kTempPath]), kTempPath)
        /\ pc' = "append" /\ err' = err
     \/ /\ fs' = fs
        /\ pc' = "error" /\ err' = <<"strerror">>
  /\ UNCHANGED <<blog, buf_base, origin, invocation>>
  /\ LogUnchanged

\* BuildLog::OpenForWrite opens the log for appending and writes the
\* signature if the file is empty.
OpenAppend ==
  /\ \/ pc = "loaded" /\ ~blog.needs_recompaction_
     \/ pc = "append"
  /\ \/ /\ fs' = IF kLogPath \in DOMAIN fs /\ fs[kLogPath] # <<>> THEN fs
                 ELSE Put(fs, kLogPath, Signature(kCurrentVersion))
        /\ origin' = IF kLogPath \in DOMAIN fs /\ fs[kLogPath] # <<>>
                     THEN origin
                     ELSE [origin EXCEPT !.version = kCurrentVersion,
                                         !.entries = <<>>]
        /\ blog' = [blog EXCEPT !.log_file_ = TRUE]
        /\ pc' = "open" /\ err' = err
     \/ /\ fs' = fs /\ origin' = origin /\ blog' = blog
        /\ pc' = "error" /\ err' = <<"strerror">>
  /\ UNCHANGED <<buf_base, invocation>>
  /\ LogUnchanged

\* BuildLog::RecordCommand for an edge with one output: the entry of the
\* output in log_ gets the values, and its line is appended to the log.
RecordCommandStep ==
  /\ pc = "open" /\ blog.log_file_
  /\ Len(origin.entries) < MaxEntries
  /\ \E entry \in LogEntries :
       /\ blog' = [blog EXCEPT !.log_ = Put(@, entry.output, entry)]
       /\ fs' = [fs EXCEPT ![kLogPath] = @ \o WriteEntry(entry)]
       /\ origin' = [origin EXCEPT !.entries = Append(@, entry)]
  /\ UNCHANGED <<buf_base, pc, err, invocation>>
  /\ LogUnchanged

\* The program stops in the middle of Recompact.
Stop ==
  /\ pc \in {"write", "unlink", "rename"}
  /\ pc' = "stopped"
  /\ UNCHANGED <<fs, blog, buf_base, origin, err, invocation>>
  /\ LogUnchanged

\* The program is run again on the files the run before left.
Rerun ==
  /\ pc \in {"open", "error", "stopped"}
  /\ invocation < MaxRuns
  /\ invocation' = invocation + 1
  /\ blog' = NewBuildLog
  /\ buf_base' \in Alignments
  /\ pc' = "load" /\ err' = NoErr
  /\ UNCHANGED <<fs, origin>>
  /\ LogUnchanged

LogNext ==
  \/ LoadStep
  \/ RecompactOpen
  \/ RecompactWrite
  \/ RecompactUnlink
  \/ RecompactRename
  \/ OpenAppend
  \/ RecordCommandStep
  \/ Stop
  \/ Rerun

LogSpec == LogInit /\ [][LogNext]_vars

-----------------------------------------------------------------------------
(* Reading a rule and looking up the bindings of an edge of it.            *)

\* A rule has at most MaxLets bindings, which name at most MaxRefs
\* bindings in all.
MaxLets == 3
MaxRefs == 5

\* The bindings the rules looked at declare and name.
RuleNames == {"command", "depfile", "deps", "description"}

\* The value of binding key that names the bindings of refs: the name of
\* the binding as text, then the references.
ValueOf(key, refs) ==
  <<Raw(key)>> \o [i \in 1..Cardinality(refs) |-> Special(InOrder(refs)[i])]

\* The sequences of n different names.
RECURSIVE KeySeqs(_)
KeySeqs(n) ==
  IF n = 0 THEN {<<>>}
  ELSE {Append(ks, k) : ks \in KeySeqs(n - 1), k \in RuleNames}

\* The number of references the values refs make in all.
RefCount(refs) ==
  Cardinality({p \in (DOMAIN refs) \X RuleNames : p[2] \in refs[p[1]]})

\* The rule looked at, as the lines ParseLet reads: bindings of the
\* different names ks with the references refs.
RuleText(ks, refs) ==
  [i \in 1..Len(ks) |-> [key |-> ks[i], value |-> ValueOf(ks[i], refs[i])]]

\* The bindings of build statements and of the scopes around them.
EdgeEnvs == {EmptyMap, [v \in {"depfile"} |-> <<"y">>]}
Scopes == {EmptyMap, [v \in {"depfile", "deps"} |-> <<"z">>]}

\* The parser is at the first binding of a rule; nothing else goes on.
RuleInit ==
  /\ manifest = MChain
  /\ invocation = 1
  /\ goal = <<>>
  /\ disk = [n \in DOMAIN ParseNodes(MChain) |-> 0]
  /\ depfiles = EmptyMap
  /\ build_log = NoLog
  /\ deps_log = EmptyMap
  /\ built = {}
  /\ failures_remaining = num_failures_allowed
  /\ FreshEngine(MChain)
  /\ fs = EmptyMap /\ blog = NewBuildLog /\ buf_base = 0
  /\ origin = NoOrigin
  /\ err = NoErr /\ pc = "rule"
  /\ \E n \in 1..MaxLets :
       \E ks \in {s \in KeySeqs(n) : Cardinality(SeqToSet(s)) = n} :
         \E refs \in [1..n -> SUBSET RuleNames] :
           /\ RefCount(refs) <= MaxRefs
           /\ lexer_ = RuleText(ks, refs)
  /\ bindings_ = EmptyMap
  /\ reserved_binding_references = EmptyMap
  /\ lookup = NoLookup
  /\ NoOutput

\* Reading rules touches neither the engine nor the log.
RuleUnchanged ==
  UNCHANGED <<manifest, nodes, edges, disk, depfiles, build_log, deps_log,
              want_, ready_, command_edges_, wanted_edges_, pools, targets,
              goal, running, started, finished, marked, demoted, crashed,
              built, scanned, visits, failures_remaining, failed, last, probe,
              invocation, fs, blog, buf_base, origin, printer, stdout,
              plog>>

\* ManifestParser::ParseRule from the first binding on.
ParseRule ==
  /\ pc = "rule"
  /\ \E r \in {ParseLets(lexer_, bindings_, reserved_binding_references)} :
       /\ pc' = r.pc /\ err' = r.err
       /\ lexer_' = r.lexer
       /\ bindings_' = r.bindings
       /\ reserved_binding_references' = r.refs
  /\ UNCHANGED lookup
  /\ RuleUnchanged

\* Edge::GetBinding on an edge of the rule read, with the bindings of its
\* build statement and of the scope around it.
GetBinding ==
  /\ pc = "parsed"
  /\ \E key \in {"command", "depfile"} : \E env \in EdgeEnvs :
       \E scope \in Scopes :
         lookup' = [key |-> key, env |-> env, scope |-> scope,
                    ret |-> EdgeLookupVariable(env, bindings_, scope, key)]
  /\ UNCHANGED <<pc, err, lexer_, bindings_, reserved_binding_references>>
  /\ RuleUnchanged

RuleNext == ParseRule \/ GetBinding

RuleSpec == RuleInit /\ [][RuleNext]_vars

-----------------------------------------------------------------------------
(* The status printer while a command holds the console.                   *)

\* The number of LinePrinter calls looked at.
MaxCalls == 6

\* The status lines passed to LinePrinter::Print, with their line types.
StatusLines ==
  {[str |-> <<"s", "1">>, type |-> "ELIDE"],
   [str |-> <<"s", "2">>, type |-> "FULL"]}

\* The texts passed to LinePrinter::PrintOnNewLine: nothing, a text that
\* ends in the middle of a line, a text that ends with its line.
Outputs == {<<>>, <<"a">>, <<"b", NL>>}

\* A printer at rest on either kind of terminal; nothing else goes on.
PrinterInit ==
  /\ manifest = MChain
  /\ invocation = 1
  /\ goal = <<>>
  /\ disk = [n \in DOMAIN ParseNodes(MChain) |-> 0]
  /\ depfiles = EmptyMap
  /\ build_log = NoLog
  /\ deps_log = EmptyMap
  /\ built = {}
  /\ failures_remaining = num_failures_allowed
  /\ FreshEngine(MChain)
  /\ fs = EmptyMap /\ blog = NewBuildLog /\ buf_base = 0
  /\ origin = NoOrigin
  /\ err = NoErr /\ pc = "print"
  /\ lexer_ = <<>> /\ bindings_ = EmptyMap
  /\ reserved_binding_references = EmptyMap
  /\ lookup = NoLookup
  /\ \E t \in {"TERM_DUMB", "TERM_ANSI"} : printer = NewLinePrinter(t)
  /\ stdout = <<>>
  /\ plog = NoPrinterCall

\* Printing touches nothing but the printer and the terminal.
PrinterUnchanged ==
  UNCHANGED <<pc, err, lexer_, bindings_, reserved_binding_references,
              lookup, manifest, nodes, edges, disk, depfiles, build_log,
              deps_log, want_, ready_, command_edges_, wanted_edges_, pools,
              targets, goal, running, started, finished, marked, demoted,
              crashed, built, scanned, visits, failures_remaining, failed, last,
              probe, invocation, fs, blog, buf_base, origin>>

\* The calls since the console was locked, after call c.
During(c) == IF printer.console_locked_ THEN Append(plog.during, c)
             ELSE plog.during

\* The printer and the terminal after a call that gave r.
Printed(r, c) ==
  /\ printer' = r.lp
  /\ stdout' = r.out
  /\ plog' = [op |-> c.op, during |-> During(c), before |-> Len(stdout),
              calls |-> plog.calls + 1]
  /\ PrinterUnchanged

\* A call of LinePrinter::Print.
PrintCall ==
  /\ pc = "print" /\ plog.calls < MaxCalls
  /\ \E l \in StatusLines :
       Printed(LinePrinterPrint(printer, stdout, l.str, l.type),
               [op |-> "Print", str |-> l.str, type |-> l.type])

\* A call of LinePrinter::PrintOnNewLine.
PrintOnNewLineCall ==
  /\ pc = "print" /\ plog.calls < MaxCalls
  /\ \E to_print \in Outputs :
       Printed(PrintOnNewLine(printer, stdout, to_print),
               [op |-> "PrintOnNewLine", str |-> to_print, type |-> "FULL"])

\* A call of LinePrinter::SetConsoleLocked.  The calls made during the
\* lock are kept until the console is locked again.
SetConsoleLockedCall ==
  /\ pc = "print" /\ plog.calls < MaxCalls
  /\ \E locked \in BOOLEAN :
       /\ printer' = SetConsoleLocked(printer, stdout, locked).lp
       /\ stdout' = SetConsoleLocked(printer, stdout, locked).out
       /\ plog' = [op |-> IF locked = printer.console_locked_ THEN "again"
                          ELSE IF locked THEN "lock" ELSE "unlock",
                   during |-> IF locked /\ ~printer.console_locked_
                              THEN <<>> ELSE plog.during,
                   before |-> Len(stdout), calls |-> plog.calls + 1]
  /\ PrinterUnchanged

PrinterNext == PrintCall \/ PrintOnNewLineCall \/ SetConsoleLockedCall

PrinterSpec == PrinterInit /\ [][PrinterNext]_vars

\* The manifests the scan is looked at with.
ScanManifests ==
  {MRules, MOrderOnly, MDeps, MDepfile, MPhonyDepfile, MLeaf, MPhonyInputs,
   MDiamond}

ScanInit ==
  \E m \in ScanManifests :
    /\ manifest = m
    /\ invocation = 1
    /\ goal \in m.goals
    /\ disk \in Disks(m)
    /\ depfiles \in DepfilesFor(m)
    /\ build_log \in ScanLogs(m)
    /\ deps_log \in DepsLogs(m)
    /\ built = {}
    /\ failures_remaining = num_failures_allowed
    /\ Fresh(m)

\* DependencyScan::RecomputeOutputDirty on an output of a scanned edge,
\* with the command of the edge and with any of its inputs, or none, as
\* the most recent input.
ProbeOutput ==
  /\ pc = "build" /\ probe = NoProbe
  /\ \E e \in DOMAIN scanned :
       \E o \in 1..Len(edges[e].outputs_) :
         \E mri \in {NoNode} \cup SeqToSet(edges[e].inputs_) :
           probe' = [edge |-> e, most_recent_input |-> mri,
                     output |-> edges[e].outputs_[o],
                     ret |-> RecomputeOutputDirty(
                               Cur, e, mri,
                               EvaluateCommand(edges[e], TRUE),
                               edges[e].outputs_[o])]
  /\ UNCHANGED <<manifest, lexer_, bindings_, reserved_binding_references, lookup, printer, stdout, plog, fs, blog, buf_base, origin, failures_remaining, failed, nodes, edges, disk, depfiles, build_log, deps_log,
                 want_, ready_, command_edges_, wanted_edges_, pools, err,
                 pc, invocation, targets, goal, running, started, finished,
                 marked, demoted, crashed, built, scanned, visits, last>>

ScanNext == AddTargetStep \/ ProbeOutput

ScanSpec == ScanInit /\ [][ScanNext]_vars

\* The scan called on an edge directly, twice.
RescanNext == StatStep \/ RecomputeDirtyStep

RescanManifests == {MDeps, MDepfile, MPhonyDepfile, MCycle, MCycleMulti}

RescanInit ==
  \E m \in RescanManifests :
    /\ manifest = m
    /\ invocation = 1
    /\ goal = <<>>
    /\ disk \in Disks(m)
    /\ depfiles \in DepfilesFor(m)
    /\ build_log \in ScanLogs(m)
    /\ deps_log \in DepsLogs(m)
    /\ built = {}
    /\ failures_remaining = num_failures_allowed
    /\ Fresh(m)

RescanSpec == RescanInit /\ [][RescanNext]_vars

-----------------------------------------------------------------------------
(* The claims.                                                             *)

\* The edges of pool p that are in the ready set, or were returned by
\* FindWork and not yet passed to EdgeFinished.
InUse(p) == {e \in ready_ \cup running : edges[e].pool_ = p}

\* C1: for every pool with a depth d > 0, at most d of the pool's edges
\* are in the ready set or running, whatever AddTarget, FindWork,
\* EdgeFinished and CleanNode calls came before, also when the plan holds
\* edges of the pool with want = false.
C1_PoolDepthBound ==
  \A p \in DOMAIN pools :
    pools[p].depth_ > 0 => Cardinality(InUse(p)) <= pools[p].depth_

\* The edges that produce an input of edge e.
Producers(e) ==
  {nodes[edges[e].inputs_[i]].in_edge_ : i \in 1..Len(edges[e].inputs_)}
  \ {NoEdge}

\* C2: whenever FindWork returns an edge, the edge that produces any of
\* its inputs (explicit, implicit or order-only) has outputs_ready_, and
\* if it was entered in want_ it has been passed to EdgeFinished, which
\* took it out again.
C2_InputsReadyWhenFound ==
  last.op = "FindWork" =>
    \A p \in Producers(last.edge) :
      /\ edges[p].outputs_ready_
      /\ p \notin DOMAIN want_
      /\ p \in marked => p \in finished

\* C2 happens: FindWork returns an edge with an order-only input whose
\* producer ran in this build.
C2_Witness ==
  /\ last.op = "FindWork"
  /\ \E i \in 1..Len(edges[last.edge].inputs_) :
       /\ is_order_only(edges[last.edge], i)
       /\ nodes[edges[last.edge].inputs_[i]].in_edge_ \in finished \cap started

\* The edges reachable from the edges of S through inputs.
RECURSIVE Closure(_)
Closure(S) ==
  IF UNION {Producers(x) : x \in S} \subseteq S THEN S
  ELSE Closure(S \cup UNION {Producers(x) : x \in S})

\* No edge of the graph depends on itself.
Acyclic == \A e \in 1..Len(edges) : e \notin Closure(Producers(e))

\* The driver keeps calling FindWork while it returns edges, every command
\* it starts ends, and Build returns when there is nothing left.  (The
\* condition on FinishCommandStep is weak fairness written out, with the
\* guard of the action for ENABLED.)
FairSpec ==
  /\ Spec
  /\ WF_vars(FindWork)
  /\ WF_vars(BuildDone)
  /\ \/ []<>~(pc = "build" /\ ~crashed /\ running # {})
     \/ []<><<FinishCommandStep>>_vars

\* C3: a plan built by AddTarget from a scanned acyclic graph converges:
\* if every edge FindWork returns is passed to EdgeFinished, then in the
\* end more_to_do() is false, FindWork has nothing to return, and every
\* edge that was wanted (and not demoted) has been returned by FindWork.
C3_PlanConverges ==
  (pc = "build" /\ Acyclic)
    ~> (/\ pc = "done"
        /\ ~more_to_do(Cur)
        /\ ready_ = {}
        /\ running = {}
        /\ (marked \ demoted) \subseteq started)

\* C3 happens: a build is done in which an edge of a pool with a depth
\* waited behind an edge that was in the plan with want = false.
C3_Witness ==
  /\ pc = "done"
  /\ finished \ marked # {}
  /\ \E e \in started : pools[edges[e].pool_].depth_ > 0

\* The edges of S that are not ready, and the not-ready edges reachable
\* from them through inputs.
NotReady(S) == {e \in S : ~edges[e].outputs_ready_}

RECURSIVE NotReadyClosure(_)
NotReadyClosure(S) ==
  IF NotReady(UNION {Producers(x) : x \in S}) \subseteq S THEN S
  ELSE NotReadyClosure(S \cup NotReady(UNION {Producers(x) : x \in S}))

\* The not-ready edges reachable from target t contain a cycle.
CycleBelow(t) ==
  \E e \in NotReadyClosure(NotReady({nodes[t].in_edge_} \ {NoEdge})) :
    e \in NotReadyClosure(NotReady(Producers(e)))

\* The error e is "dependency cycle: " and then nodes joined by " -> ",
\* each an input of the edge that produces the one before it, the last
\* node being the first again.
IsCycleError(e) ==
  /\ Len(e) >= 4 /\ Len(e) % 2 = 0
  /\ e[1] = "dependency cycle: "
  /\ \A i \in 2..Len(e) :
       IF i % 2 = 1 THEN e[i] = " -> "
       ELSE /\ e[i] \in DOMAIN nodes
            /\ i > 2 => /\ nodes[e[i - 2]].in_edge_ # NoEdge
                        /\ e[i] \in SeqToSet(
                             edges[nodes[e[i - 2]].in_edge_].inputs_)
  /\ e[2] = e[Len(e)]

\* C4: when the not-ready edges reachable from the requested target
\* contain a dependency cycle, AddTarget returns false with an error that
\* starts with "dependency cycle: " and lists the nodes of the cycle,
\* joined by " -> ", from a node back to the same node.
C4_CycleReported ==
  (last.op = "AddTarget" /\ last.planned /\ CycleBelow(last.node))
    => (~last.ret /\ IsCycleError(err))

\* The edges reachable from the targets of the invocation.
Wanted == Closure({nodes[t].in_edge_ : t \in SeqToSet(goal)} \ {NoEdge})

\* A phony edge without inputs whose output is not on the disk is reachable
\* from the targets: the scan finds such an edge dirty every time.
PhonyAlwaysDirty ==
  \E e \in Wanted :
    /\ is_phony(edges[e])
    /\ edges[e].inputs_ = <<>>
    /\ \E i \in 1..Len(edges[e].outputs_) : disk[edges[e].outputs_[i]] = 0

C9_Cleaned(D) ==
  last.cleaned
  \cup UNION {SeqToSet(edges[ei].outputs_) : ei \in D}

\* The edges CleanNode has to demote, given that it demotes those of D:
\* the edges that were wanted, have their deps, consume a cleaned node,
\* have no dirty input before the order-only ones and no dirty output.
C9_Step(D) ==
  D \cup
  {ei \in last.wanted :
     /\ ~edges[ei].deps_missing_
     /\ SeqToSet(edges[ei].inputs_) \cap C9_Cleaned(D) # {}
     /\ \A i \in 1..Len(edges[ei].inputs_) :
          is_order_only(edges[ei], i) \/ ~nodes[edges[ei].inputs_[i]].dirty_
     /\ ~RecomputeOutputsDirty(
           Cur, ei,
           MostRecentInput(Cur, edges[ei].inputs_,
                           Len(edges[ei].inputs_) - edges[ei].order_only_deps_,
                           Len(edges[ei].inputs_) - edges[ei].order_only_deps_)
         ).ret}

RECURSIVE C9_Fix(_)
C9_Fix(D) == IF C9_Step(D) = D THEN D ELSE C9_Fix(C9_Step(D))

\* C9: when a restat edge leaves an output unchanged and CleanNode is
\* called on it, every wanted consumer edge with its deps, with clean
\* inputs (but for order-only ones) and with outputs that
\* RecomputeOutputsDirty finds clean is demoted: want is false,
\* wanted_edges_ is one less for each, command_edges_ one less for each
\* that is not phony; its outputs are cleaned in the same way; and no
\* demoted edge is in the ready set or returned by FindWork afterwards.
C9_CleanNodeDemotes ==
  /\ (last.op = "FinishCommand" /\ last.cleaned # {}) =>
       /\ demoted \ last.demoted = C9_Fix({})
       /\ \A ei \in demoted : ei \in DOMAIN want_ => ~want_[ei]
       /\ wanted_edges_ =
            last.wanted_edges_ - Cardinality(demoted \ last.demoted) - 1
       /\ command_edges_ =
            last.command_edges_
              - Cardinality({ei \in demoted \ last.demoted :
                               ~is_phony(edges[ei])})
       /\ \A ei \in demoted : \A i \in 1..Len(edges[ei].outputs_) :
            ~nodes[edges[ei].outputs_[i]].dirty_
  /\ demoted \cap (ready_ \cup running \cup started) = {}
  /\ last.op = "FindWork" => last.edge \notin demoted

\* C9 happens: a restat command left its output unchanged, and CleanNode
\* demoted an edge with a command and, behind it, a phony edge.
C9_Witness ==
  /\ last.op = "FinishCommand" /\ last.cleaned # {}
  /\ \E ei \in demoted \ last.demoted : is_phony(edges[ei])
  /\ \E ei \in demoted \ last.demoted : ~is_phony(edges[ei])

\* The output of the probe is missing.
ProbeMissing == nodes[probe.output].mtime_ = 0

\* The output of the probe is older than the most recent input, and no
\* restat entry of the build log says it was cleaned since.
ProbeOlder ==
  /\ probe.most_recent_input # NoNode
  /\ nodes[probe.output].mtime_ < nodes[probe.most_recent_input].mtime_
  /\ ~(/\ edges[probe.edge].rule.restat # ""
       /\ build_log.present
       /\ probe.output \in DOMAIN build_log.log_
       /\ build_log.log_[probe.output].restat_mtime
            >= nodes[probe.most_recent_input].mtime_)

\* The command of the probed edge as it is expanded now, with the content
\* of its response file.
ProbeCommand ==
  IF edges[probe.edge].rule.rspfile_content = ""
  THEN <<edges[probe.edge].rule.command>>
  ELSE <<edges[probe.edge].rule.command, ";rspfile=",
         edges[probe.edge].rule.rspfile_content>>

\* The build log has no entry for the output of the probe, or one of
\* another command.
ProbeCommandChanged ==
  \/ probe.output \notin DOMAIN build_log.log_
  \/ build_log.log_[probe.output].command_hash # HashCommand(ProbeCommand)

\* C6: with a build log and an edge that is not a generator, an output of
\* a non-phony edge that exists and passes the mtime check is dirty if and
\* only if the log has no entry for it or the entry's hash is not the hash
\* of the command as expanded now, response file content included; for a
\* generator, or without a build log, such an output is not dirty.
C6_CommandHashDirty ==
  (/\ probe.edge # NoEdge
   /\ ~edges[probe.edge].rule.phony
   /\ ~ProbeMissing /\ ~ProbeOlder)
    => IF build_log.present /\ edges[probe.edge].rule.generator = ""
       THEN probe.ret <=> ProbeCommandChanged
       ELSE ~probe.ret

\* C6 happens: an output that passes the file checks is dirty because the
\* log has the hash of the command without the response file content.
C6_Witness ==
  /\ probe.edge # NoEdge /\ ~edges[probe.edge].rule.phony
  /\ ~ProbeMissing /\ ~ProbeOlder
  /\ edges[probe.edge].rule.rspfile_content # ""
  /\ probe.output \in DOMAIN build_log.log_
  /\ build_log.log_[probe.output].command_hash
       = HashCommand(<<edges[probe.edge].rule.command>>)
  /\ probe.ret

\* C7: for a non-phony edge RecomputeOutputDirty finds an output dirty for
\* the state of the files exactly when the output is missing, or older
\* than the most recent input unless the edge is a restat rule and the log
\* has an entry for the output with restat_mtime >= the input's mtime;
\* without a most recent input an output that exists is not dirty for its
\* mtime.
C7_FileStateDirty ==
  (probe.edge # NoEdge /\ ~edges[probe.edge].rule.phony)
    => /\ (ProbeMissing \/ ProbeOlder) => probe.ret
       /\ (probe.ret /\ ~ProbeMissing /\ ~ProbeOlder)
            => (/\ build_log.present
                /\ edges[probe.edge].rule.generator = ""
                /\ ProbeCommandChanged)
       /\ (/\ probe.most_recent_input = NoNode /\ ~ProbeMissing
           /\ (~build_log.present \/ edges[probe.edge].rule.generator # ""))
            => ~probe.ret

\* C7 happens: the output of a restat edge is older than the input, the
\* log's restat_mtime is not, and the output is found clean.
C7_Witness ==
  /\ probe.edge # NoEdge /\ edges[probe.edge].rule.restat # ""
  /\ probe.most_recent_input # NoNode
  /\ nodes[probe.output].mtime_ > 0
  /\ nodes[probe.output].mtime_ < nodes[probe.most_recent_input].mtime_
  /\ ~probe.ret

\* The inputs of edge e that are not order-only, and the order-only ones.
RegularInputs(e) ==
  {edges[e].inputs_[i] :
     i \in 1..(Len(edges[e].inputs_) - edges[e].order_only_deps_)}

OrderOnlyInputs(e) ==
  {edges[e].inputs_[i] :
     i \in (Len(edges[e].inputs_) - edges[e].order_only_deps_ + 1)
             ..Len(edges[e].inputs_)}

\* Every explicit and implicit input of e is clean, and
\* RecomputeOutputsDirty is false for e with the most recent of them.
CleanButForOrderOnly(e) ==
  /\ \A n \in RegularInputs(e) : ~nodes[n].dirty_
  /\ ~RecomputeOutputsDirty(
        Cur, e,
        MostRecentInput(Cur, edges[e].inputs_,
                        Len(edges[e].inputs_) - edges[e].order_only_deps_,
                        Len(edges[e].inputs_) - edges[e].order_only_deps_)
      ).ret

\* The outputs of e are clean, and the most recent input the scan found
\* for e is none or an input that is not order-only.
OutputsStayClean(e) ==
  /\ \A i \in 1..Len(edges[e].outputs_) : ~nodes[edges[e].outputs_[i]].dirty_
  /\ scanned[e] \in {NoNode} \cup RegularInputs(e)

\* C8: RecomputeDirty never makes an edge dirty for an order-only input:
\* when every explicit and implicit input is clean and
\* RecomputeOutputsDirty is false, the outputs of the edge stay clean,
\* also when an order-only input is dirty or newer than the outputs, and
\* an order-only input is never the most recent input.
C8_OrderOnlyNeverDirties ==
  pc = "build" =>
    \A e \in DOMAIN scanned :
      (OrderOnlyInputs(e) # {} /\ CleanButForOrderOnly(e))
        => OutputsStayClean(e)

\* C8 as it holds: the same for an edge whose dependency information was
\* not missing; an edge whose deps are missing is dirty whatever its
\* inputs are.
C8_OrderOnlyNeverDirtiesWithDeps ==
  pc = "build" =>
    \A e \in DOMAIN scanned :
      /\ (/\ OrderOnlyInputs(e) # {} /\ CleanButForOrderOnly(e)
          /\ ~edges[e].deps_missing_)
           => OutputsStayClean(e)
      /\ edges[e].deps_missing_
           => \A i \in 1..Len(edges[e].outputs_) :
                nodes[edges[e].outputs_[i]].dirty_

\* C8 happens: a scanned edge has clean outputs, a dirty order-only input
\* that is newer than an output, and its outputs are not ready.
C8_Witness ==
  /\ pc = "build"
  /\ \E e \in DOMAIN scanned :
       /\ CleanButForOrderOnly(e) /\ ~edges[e].deps_missing_
       /\ RegularInputs(e) # {}
       /\ ~edges[e].outputs_ready_
       /\ \E n \in OrderOnlyInputs(e) \ RegularInputs(e) :
            /\ nodes[n].dirty_
            /\ \E i \in 1..Len(edges[e].outputs_) :
                 nodes[n].mtime_ > nodes[edges[e].outputs_[i]].mtime_

\* The dependency information of edge e is missing: its depfile is absent
\* or empty, or the deps log has no entry for its first output, or one
\* that is older than the output.
MissingDeps(e) ==
  IF edges[e].rule.deps # ""
  THEN \/ edges[e].outputs_[1] \notin DOMAIN deps_log
       \/ disk[edges[e].outputs_[1]] > deps_log[edges[e].outputs_[1]].mtime
  ELSE /\ edges[e].rule.depfile # ""
       /\ depfiles[edges[e].rule.depfile].kind \in {"missing", "empty"}

\* The depfile of edge e cannot be read or parsed, or is about another
\* output.
BadDepfile(e) ==
  /\ edges[e].rule.deps = "" /\ edges[e].rule.depfile # ""
  /\ \/ depfiles[edges[e].rule.depfile].kind \in {"unreadable", "malformed"}
     \/ /\ depfiles[edges[e].rule.depfile].kind = "ok"
        /\ CanonicalizePath(depfiles[edges[e].rule.depfile].out)
             # <<edges[e].outputs_[1]>>

\* RecomputeDirty did to edge e what it does for missing deps.
MarkedForDeps(e) ==
  /\ edges[e].deps_missing_
  /\ \A i \in 1..Len(edges[e].outputs_) : nodes[edges[e].outputs_[i]].dirty_

\* C10: missing dependency information is not an error: when the depfile
\* is absent or empty, the deps log has no entry for the first output, or
\* the entry is older than the output, LoadDeps returns false without an
\* error, and RecomputeDirty sets deps_missing_, marks every output
\* dirty, clears outputs_ready_ and returns true.
C10_MissingDepsRecoverable ==
  (/\ last.op = "AddTarget"
   /\ nodes[last.node].in_edge_ # NoEdge
   /\ MissingDeps(nodes[last.node].in_edge_))
    => /\ last.ret \/ last.planned
       /\ MarkedForDeps(nodes[last.node].in_edge_)
       /\ ~edges[nodes[last.node].in_edge_].outputs_ready_

\* C10 as it holds: RecomputeDirty sets deps_missing_; it returns false
\* only with the error of an edge below, and else it marks every output
\* dirty and clears outputs_ready_ unless the edge is a phony edge
\* without inputs, whose outputs_ready_ stays true.
C10_MissingDepsRecoverableUnlessBelow ==
  /\ (/\ last.op = "AddTarget"
      /\ nodes[last.node].in_edge_ # NoEdge
      /\ MissingDeps(nodes[last.node].in_edge_))
       => /\ edges[nodes[last.node].in_edge_].deps_missing_
          /\ IF last.ret \/ last.planned
             THEN nodes[last.node].in_edge_ \in DOMAIN scanned
             ELSE /\ err # NoErr
                  /\ \E b \in Closure(Producers(nodes[last.node].in_edge_)) :
                       BadDepfile(b)
  /\ \A e \in DOMAIN scanned :
       MissingDeps(e) =>
         /\ MarkedForDeps(e)
         /\ edges[e].outputs_ready_
              <=> (edges[e].rule.phony /\ edges[e].inputs_ = <<>>)

\* C10 happens: the target's entry in the deps log is older than the
\* target, and the scan went through and left the edge to be rebuilt.
C10_Witness ==
  /\ last.op = "AddTarget" /\ last.planned
  /\ nodes[last.node].in_edge_ # NoEdge
  /\ edges[nodes[last.node].in_edge_].rule.deps # ""
  /\ last.node \in DOMAIN deps_log
  /\ disk[last.node] > deps_log[last.node].mtime
  /\ MarkedForDeps(nodes[last.node].in_edge_)
  /\ ~edges[nodes[last.node].in_edge_].outputs_ready_

\* The implicit inputs of edge e that the manifest has no edge for: the
\* ones a depfile or the deps log gave it.
LoadedDeps(e) ==
  {edges[e].inputs_[i] :
     i \in (Len(edges[e].inputs_) - edges[e].order_only_deps_
              - edges[e].implicit_deps_ + 1)
             ..(Len(edges[e].inputs_) - edges[e].order_only_deps_)}
  \cap manifest.extra

\* Node n has the in-edge CreatePhonyInEdge makes.
HasPhonyInEdge(n) ==
  /\ nodes[n].in_edge_ # NoEdge
  /\ edges[nodes[n].in_edge_].rule.phony
  /\ edges[nodes[n].in_edge_].inputs_ = <<>>
  /\ edges[nodes[n].in_edge_].outputs_ = <<n>>
  /\ edges[nodes[n].in_edge_].outputs_ready_

\* The error says that node n is missing and no rule makes it.
IsMissingErrorFor(n) ==
  /\ Len(err) >= 4
  /\ err[1] = "'" /\ err[2] = n /\ err[3] = "'"
  /\ err[Len(err)] = " missing and no known rule to make it"

\* C11: an implicit dependency loaded from a depfile or the deps log that
\* has no producing edge gets a phony in-edge with the node as only output
\* and outputs_ready_; so when the file is missing the scan marks the
\* consuming edge dirty and AddTarget does not fail with "missing and no
\* known rule to make it", whenever the node was first stat'd.
C11_MissingHeaderRebuilds ==
  \A e \in DOMAIN scanned :
    \A n \in LoadedDeps(e) :
      /\ HasPhonyInEdge(n)
      /\ disk[n] = 0 =>
           /\ \A i \in 1..Len(edges[e].outputs_) :
                nodes[edges[e].outputs_[i]].dirty_
           /\ ~IsMissingErrorFor(n)

\* The edges AddTarget(t) walks: the in-edge of t if it is not ready, and
\* the not-ready edges reachable from it through inputs.
Walked(t) == NotReadyClosure(NotReady({nodes[t].in_edge_} \ {NoEdge}))

\* The nodes without in-edge that AddTarget(t) comes to: t itself, or an
\* input of a walked edge.
LeavesBelow(t) ==
  {n \in {t} \cup UNION {SeqToSet(edges[e].inputs_) : e \in Walked(t)} :
     nodes[n].in_edge_ = NoEdge}

\* The error is the one for the dirty leaf n below target t: without a
\* consumer when n is the target, and else with an output of a walked
\* edge that has n as input.
IsMissingError(n, t) ==
  \/ /\ n = t
     /\ err = <<"'", n, "'", " missing and no known rule to make it">>
  \/ \E e \in Walked(t) : \E c \in SeqToSet(edges[e].outputs_) :
       /\ n \in SeqToSet(edges[e].inputs_)
       /\ err = <<"'", n, "'", ", needed by '", c, "',",
                  " missing and no known rule to make it">>

\* C12: AddTarget on a target that is, or reaches through the inputs of
\* not-ready edges, a node without in-edge that is dirty returns false
\* with the error "'<path>'[, needed by '<consumer>',] missing and no
\* known rule to make it"; a leaf that is not dirty gives no error and
\* does not stop the walk: every walked edge is in the plan.
C12_MissingLeafError ==
  (last.op = "AddTarget" /\ last.planned /\ ~CycleBelow(last.node)) =>
    IF \E n \in LeavesBelow(last.node) : nodes[n].dirty_
    THEN /\ ~last.ret
         /\ \E n \in LeavesBelow(last.node) :
              nodes[n].dirty_ /\ IsMissingError(n, last.node)
    ELSE /\ err = NoErr
         /\ last.ret <=> nodes[last.node].in_edge_ # NoEdge
         /\ Walked(last.node) \subseteq DOMAIN want_

\* C12 happens: the walk came to a missing order-only input of an edge
\* that has to run, and AddTarget failed naming the input and the output.
C12_Witness ==
  /\ last.op = "AddTarget" /\ last.planned /\ ~last.ret
  /\ Len(err) = 7
  /\ \E e \in Walked(last.node) :
       /\ err[2] \in OrderOnlyInputs(e) \ RegularInputs(e)
       /\ err[5] \in SeqToSet(edges[e].outputs_)
       /\ disk[err[2]] = 0

\* The depfile of edge e is there and names, once "." components are
\* dropped, something else than the first output of e.
WrongOutput(e) ==
  /\ e \in 1..Len(ParseEdges(manifest))
  /\ edges[e].rule.deps = "" /\ edges[e].rule.depfile # ""
  /\ depfiles[edges[e].rule.depfile].kind = "ok"
  /\ depfiles[edges[e].rule.depfile].out
       \notin { <<edges[e].outputs_[1]>>, <<".", edges[e].outputs_[1]>> }

\* The depfile of edge e gives no error.
DepfileLoads(e) ==
  edges[e].rule.depfile # "" =>
    /\ depfiles[edges[e].rule.depfile].kind \in {"missing", "empty", "ok"}
    /\ ~WrongOutput(e)

\* The scan failed on the depfile of edge e: the error names the depfile,
\* the first output and the output the depfile names, and e has the
\* inputs the manifest gave it.
FailedOnDepfile(e) ==
  /\ last.op = "AddTarget" /\ ~last.ret /\ ~last.planned
  /\ Len(err) >= 7
  /\ SubSeq(err, 1, 5) = <<"expected depfile '", edges[e].rule.depfile,
                           "' to mention '", edges[e].outputs_[1],
                           "', got '">>
  /\ err[Len(err) - 1] = depfiles[edges[e].rule.depfile].out[
                           Len(depfiles[edges[e].rule.depfile].out)]
  /\ err[Len(err)] = "'"
  /\ edges[e].inputs_ = ParseEdges(manifest)[e].inputs_
  /\ edges[e].implicit_deps_ = ParseEdges(manifest)[e].implicit_deps_

\* C13: when the output a present depfile names does not canonicalize to
\* the first output of the edge, LoadDepFile and with it RecomputeDirty
\* (of the edge, and of an edge that scans it as the producer of its first
\* input) fail with "expected depfile '<path>' to mention '<first
\* output>', got '<token>'", and the inputs and implicit_deps_ of the edge
\* are as before; a depfile that names the first output, with or without
\* "./" before it, gives no such error.
C13_DepfileWrongOutput ==
  (last.op = "AddTarget" /\ nodes[last.node].in_edge_ # NoEdge) =>
    /\ WrongOutput(nodes[last.node].in_edge_)
         => FailedOnDepfile(nodes[last.node].in_edge_)
    /\ \A b \in Producers(nodes[last.node].in_edge_) :
         (/\ WrongOutput(b)
          /\ DepfileLoads(nodes[last.node].in_edge_)
          /\ nodes[ParseEdges(manifest)[nodes[last.node].in_edge_].inputs_[1]]
               .in_edge_ = b)
           => FailedOnDepfile(b)
    /\ \A e \in 1..Len(ParseEdges(manifest)) :
         (edges[e].rule.depfile # "" /\ ~WrongOutput(e))
           => ~(/\ Len(err) >= 2 /\ err[1] = "expected depfile '"
                /\ err[2] = edges[e].rule.depfile)

\* C13 happens: the depfile of the edge below the target names another
\* output, and the scan of the target failed with the error for it.
C13_Witness ==
  /\ last.op = "AddTarget" /\ nodes[last.node].in_edge_ # NoEdge
  /\ \E b \in Producers(nodes[last.node].in_edge_) :
       WrongOutput(b) /\ FailedOnDepfile(b)

-----------------------------------------------------------------------------
(* Failing commands.                                                       *)

\* The edges that depend on a failed edge, directly or through inputs.
BehindFailure == {e \in 1..Len(edges) : Closure(Producers(e)) \cap failed # {}}

\* Builder::Build has returned false while failures were still allowed.
GaveUpEarly ==
  pc = "failed" /\ last.op = "Build" /\ failures_remaining > 0

\* C14: after a command failed, the failed edge never has outputs_ready_
\* and no edge that depends on it through inputs is started; when Build
\* then returns with failures still allowed, every wanted edge that does
\* not depend on a failed edge has been started and finished; and once no
\* failure is allowed any more FindWork is not called again and Build
\* does not return true.
C14_FailureIsolated ==
  /\ \A e \in failed : ~edges[e].outputs_ready_
  /\ started \cap BehindFailure = {}
  /\ GaveUpEarly
       => \A e \in (marked \ demoted) \ (failed \cup BehindFailure) :
            e \in started \cap finished
  /\ (last.op = "FindWork" /\ last.ret) => failures_remaining > 0
  /\ pc = "done" => failed = {}

-----------------------------------------------------------------------------
(* Scanning an edge twice.                                                 *)

\* RecomputeDirty has been called twice on the same edge, without error.
ScannedTwice ==
  Len(targets) = 2 /\ last.op = "RecomputeDirty" /\ err = NoErr

\* C15: the second of two consecutive calls of RecomputeDirty on an edge
\* leaves every flag as the first call left it: dirty_ of every node,
\* outputs_ready_ and deps_missing_ of every edge, whether or not the
\* outputs of the edge had been stat'd before the first call.
C15_RescanSameFlags ==
  ScannedTwice => Flags(Cur) = probe.flags

-----------------------------------------------------------------------------
(* The build log file.                                                     *)

\* The outputs of a sequence of entries, and the entries as a log: for
\* each output the last entry of the sequence that names it.
OutputsOf(entries) == {entries[i].output : i \in 1..Len(entries)}

LastOf(entries, o) ==
  entries[CHOOSE i \in 1..Len(entries) :
            /\ entries[i].output = o
            /\ \A j \in (i + 1)..Len(entries) : entries[j].output # o]

EntryMap(entries) == [o \in OutputsOf(entries) |-> LastOf(entries, o)]

\* The log file is there and holds what was written in the current
\* format: the signature and the lines of origin.entries.
WrittenV4 ==
  /\ kLogPath \in DOMAIN fs
  /\ origin.version = kCurrentVersion
  /\ fs[kLogPath] = LogFile(kCurrentVersion, origin.entries)

\* C16: a log written in the current format with one entry per output is
\* loaded as the entries written, with the same start_time, end_time,
\* restat_mtime and command for each output, and is not flagged for
\* recompaction.
C16_LogRoundTrip ==
  (/\ pc = "loaded" /\ WrittenV4
   /\ Cardinality(OutputsOf(origin.entries)) = Len(origin.entries))
    => /\ blog.log_ = EntryMap(origin.entries)
       /\ ~blog.needs_recompaction_

\* The program loaded the log file that holds origin.entries in the format
\* of origin.version, and has recorded nothing since.
LoadedAsFound == origin.old = LogFile(origin.version, origin.entries)

\* The log file one entry per output makes: the signature and, for each
\* output of the entries, the line of the last entry that names it.
Compacted(entries) ==
  Signature(kCurrentVersion)
  \o EntryLines(SetToSeq({EntryMap(entries)[o] : o \in OutputsOf(entries)}),
                kCurrentVersion)

\* C17: when Load has flagged the log for recompaction, OpenForWrite
\* leaves a log file that holds the signature of the current version and
\* one line per output of the old file, with the values of the last entry
\* of that output in the old file.
C17_RecompactLatestWins ==
  (pc = "open" /\ blog.needs_recompaction_ /\ LoadedAsFound)
    => /\ kLogPath \in DOMAIN fs
       /\ fs[kLogPath] = Compacted(origin.entries)

\* Load has just read the log file that is there.
JustLoaded == pc = "loaded" /\ kLogPath \in DOMAIN fs

CompactedLog ==
  Signature(kCurrentVersion) \o EntryLines(LogSeq(blog), kCurrentVersion)

\* C19: from the time Recompact starts, whether it goes on, fails or the
\* program stops, the log path names a file, and the file is either the
\* whole log that was loaded or the whole compacted log.
C19_AtomicReplace ==
  (/\ blog.needs_recompaction_
   /\ pc \in {"write", "unlink", "rename", "append", "error", "stopped"})
    => /\ kLogPath \in DOMAIN fs
       /\ fs[kLogPath] \in {origin.old, CompactedLog}

\* C20: after Load of a log whose signature names another version than the
\* current one, lower or higher, needs_recompaction_ is set; and a log of
\* a lower version, whose fields a space separates, is read: log_ holds
\* for each output the last entry of the file.
C20_OtherVersions ==
  (/\ JustLoaded /\ LoadedAsFound
   /\ origin.version \notin {0, kCurrentVersion})
    => /\ blog.needs_recompaction_
       /\ origin.version < kCurrentVersion
            => blog.log_ = EntryMap(origin.entries)

\* Load has just read a log file that holds the line origin.bad, which is
\* no entry, among the lines of origin.entries.
LoadedWithBadLine ==
  /\ JustLoaded
  /\ origin.bad \in BadLines(origin.version)
  /\ origin.old = LogFileWith(origin.version, origin.entries, origin.bad,
                              origin.at)

\* C21: after Load of a log with a line that lacks a field separator
\* before the command, log_ holds what the other lines give, for each
\* output the last entry of the file, and needs_recompaction_ is set.
C21_BadLineSkipped ==
  LoadedWithBadLine
    => /\ blog.log_ = EntryMap(origin.entries)
       /\ blog.needs_recompaction_

\* Load has just read a log file that holds, among the lines of
\* origin.entries, the line origin.bad, which is longer than the buffer
\* of LineReader.
LoadedWithOverlongLine ==
  /\ JustLoaded
  /\ Len(origin.bad) > kBufSize
  /\ origin.old = LogFileWith(origin.version, origin.entries, origin.bad,
                              origin.at)

\* C22: after Load of a log with a line longer than the buffer, log_ holds
\* what the other lines give, for each output the last entry of the file:
\* no entry comes of the overlong line or of a part of it, and the
\* entries behind it are loaded whole.
C22_OverlongLineSkipped ==
  LoadedWithOverlongLine => blog.log_ = EntryMap(origin.entries)

-----------------------------------------------------------------------------
(* Rules and bindings.                                                     *)

\* The references of the bindings of a rule text: the pairs of a binding
\* and a reserved binding its value names.
RefsOf(text) ==
  {p \in SeqToSet(ReservedBindings) \X SeqToSet(ReservedBindings) :
     \E i \in 1..Len(text) :
       /\ text[i].key = p[1]
       /\ \E j \in 1..Len(text[i].value) :
            text[i].value[j].special /\ text[i].value[j].str = p[2]}

\* The pairs joined by a path of one to n + 1 references of E.
RECURSIVE Paths(_, _)
Paths(E, n) ==
  IF n = 0 THEN E
  ELSE E \cup {<<p[1][1], p[2][2]>> :
                 p \in {r \in Paths(E, n - 1) \X E : r[1][2] = r[2][1]}}

\* The bindings of the rule text reference each other in a cycle.
HasCycle(text) ==
  \E p \in Paths(RefsOf(text), Len(text)) : p[1] = p[2]

\* C23: ParseRule on a rule whose reserved bindings reference each other
\* in a cycle, in any order of declaration, returns false with an error
\* that starts with "found cycle ".
C23_CyclesRejected ==
  [][(pc = "rule" /\ HasCycle(lexer_))
       => /\ pc' = "error"
          /\ err' # NoErr /\ Head(err') = "found cycle "]_vars

\* C24: ParseRule on a rule whose reserved bindings do not reference each
\* other in a cycle gets true from every call of
\* CheckRuleBindingDependencyCycle: each call returns, and none with the
\* error "found cycle".
C24_AcyclicAccepted ==
  [][(pc = "rule" /\ ~HasCycle(lexer_))
       => /\ pc' # "hang"
          /\ pc' = "error" => Head(err') # "found cycle "]_vars

\* The pieces of a string.
Pieces(str) == {str[i] : i \in DOMAIN str}

\* The names a value refers to.
Referred(value) == {value[i].str : i \in {j \in DOMAIN value : value[j].special}}

\* C25: Edge::GetBinding asks the build statement first, then the rule,
\* then the scope around.  A name the build statement binds has that value;
\* a name only the rule binds has the rule's text, in which every reference
\* the build statement binds shows the build statement's value, every other
\* reference the rule binds shows the rule's own value, and only the rest
\* shows the value of the scope around; a name neither binds has the value
\* of the scope around or is empty.
C25_LookupOrder ==
  lookup # NoLookup =>
    /\ lookup.key \in DOMAIN lookup.env
         => lookup.ret = lookup.env[lookup.key]
    /\ (lookup.key \notin DOMAIN lookup.env /\ lookup.key \in DOMAIN bindings_)
         => /\ Head(lookup.ret) = lookup.key
            /\ \A v \in Referred(bindings_[lookup.key]) :
                 IF v \in DOMAIN lookup.env
                 THEN Pieces(lookup.env[v]) \subseteq Pieces(lookup.ret)
                 ELSE IF v \in DOMAIN bindings_
                 THEN v \in Pieces(lookup.ret)
                 ELSE Pieces(LookupVariable(lookup.scope, v))
                        \subseteq Pieces(lookup.ret)
            /\ (\A v \in DOMAIN bindings_ :
                  Referred(bindings_[v]) \subseteq
                    (DOMAIN bindings_ \cup DOMAIN lookup.env))
                 => "z" \notin Pieces(lookup.ret)
            /\ (Referred(bindings_[lookup.key]) = {"depfile"}
                 /\ "depfile" \in DOMAIN bindings_
                 /\ Referred(bindings_["depfile"]) = {})
                 => lookup.ret =
                      <<lookup.key>> \o
                      (IF "depfile" \in DOMAIN lookup.env
                       THEN lookup.env["depfile"] ELSE <<"depfile">>)
    /\ (lookup.key \notin DOMAIN lookup.env
        /\ lookup.key \notin DOMAIN bindings_)
         => lookup.ret = LookupVariable(lookup.scope, lookup.key)

\* The command of a rule that names $depfile, asked for on an edge whose
\* build statement binds depfile over the rule's own depfile.
C25_Witness ==
  /\ lookup.key = "command"
  /\ "depfile" \in DOMAIN lookup.env
  /\ "depfile" \in DOMAIN bindings_
  /\ "depfile" \in DOMAIN lookup.scope
  /\ lookup.ret = <<"command", "y">>

-----------------------------------------------------------------------------
(* The status printer.                                                     *)

\* The texts in strs occur in w one after the other, in this order.
RECURSIVE ContainsInOrder(_, _)
ContainsInOrder(w, strs) ==
  IF strs = <<>> THEN TRUE
  ELSE \E i \in 0..(Len(w) - Len(Head(strs))) :
         /\ SubSeq(w, i + 1, i + Len(Head(strs))) = Head(strs)
         /\ ContainsInOrder(SubSeq(w, i + Len(Head(strs)) + 1, Len(w)),
                            Tail(strs))

\* The texts of the calls of op among the calls cs, in call order.
RECURSIVE TextsOf(_, _)
TextsOf(cs, op) ==
  IF cs = <<>> THEN <<>>
  ELSE (IF Head(cs).op = op THEN <<Head(cs).str>> ELSE <<>>)
       \o TextsOf(Tail(cs), op)

\* The status line passed to Print during the lock that no later
\* PrintOnNewLine has moved to the output: its text, or nothing.
Pending(cs) ==
  IF cs # <<>> /\ cs[Len(cs)].op = "Print" THEN cs[Len(cs)].str ELSE <<>>

\* What the last call wrote to the terminal.
Written == SubSeq(stdout, plog.before + 1, Len(stdout))

\* The console was unlocked after two outputs and two status lines, the
\* first of them before the second output, the second still pending.
C26_Witness ==
  /\ plog.op = "unlock"
  /\ TextsOf(plog.during, "PrintOnNewLine") = << <<"a">>, <<"b", NL>> >>
  /\ Len(TextsOf(plog.during, "Print")) = 2
  /\ plog.during[2].op = "Print"
  /\ Pending(plog.during) # <<>>
  /\ Written # <<>>

\* C26: a Print or PrintOnNewLine call on a locked console writes nothing;
\* unlocking writes the texts passed to PrintOnNewLine during the lock in
\* call order and after them the last status line if it is still pending,
\* and leaves both buffers empty; locking a locked console and unlocking
\* an unlocked one change nothing.
C26_LockedConsole ==
  [][/\ (printer.console_locked_ /\ plog'.op \in {"Print", "PrintOnNewLine"})
        => stdout' = stdout
     /\ plog'.op = "unlock"
        => /\ Len(stdout) <= Len(stdout')
           /\ SubSeq(stdout', 1, Len(stdout)) = stdout
           /\ \E tail \in {<<>>, <<NL>>, <<ClearToEndOfLine>>} :
                \E n \in {Len(stdout') - Len(Pending(plog.during) \o tail)} :
                  /\ n >= Len(stdout)
                  /\ (Pending(plog.during) = <<>>) = (tail = <<>>)
                  /\ SubSeq(stdout', n + 1, Len(stdout'))
                       = Pending(plog.during) \o tail
                  /\ ContainsInOrder(
                       SubSeq(stdout', Len(stdout) + 1, n),
                       TextsOf(plog.during, "PrintOnNewLine"))
           /\ printer'.output_buffer_ = <<>>
           /\ printer'.line_buffer_ = <<>>
           /\ ~printer'.console_locked_
     /\ plog'.op = "lock" => printer'.console_locked_
     /\ plog'.op = "again" => printer' = printer /\ stdout' = stdout]_vars

-----------------------------------------------------------------------------
(* The plan: scheduling.                                                   *)

WaitsFor(e) ==
  {nodes[edges[e].inputs_[i]].in_edge_ :
     i \in {j \in DOMAIN edges[e].inputs_ :
              /\ nodes[edges[e].inputs_[j]].in_edge_ # NoEdge
              /\ ~edges[nodes[edges[e].inputs_[j]].in_edge_].outputs_ready_}}
  \cup (IF e \in SeqToSet(pools[edges[e].pool_].delayed_)
        THEN {f \in DOMAIN edges : f # e /\ edges[f].pool_ = edges[e].pool_}
        ELSE {})

\* The edges e waits for, directly or through other edges, in at most n
\* steps.
RECURSIVE WaitsForWithin(_, _)
WaitsForWithin(e, n) ==
  IF n = 0 THEN {e}
  ELSE {e} \cup UNION {WaitsForWithin(f, n - 1) : f \in WaitsFor(e)}

\* C28: when the ready set is empty and there is more to do, every edge
\* that is wanted is running or waits, through its inputs or its pool, for
\* an edge that is running.
C28_NoWorkMeansWaiting ==
  (pc = "build" /\ ready_ = {} /\ more_to_do(Cur) /\ ~crashed)
    => \A e \in DOMAIN want_ :
         want_[e] => WaitsForWithin(e, Len(edges)) \cap running # {}

-----------------------------------------------------------------------------
(* The plan: what AddTarget records.                                       *)

\* The edges that produce an input of edge e, in the graph of the nodes
\* ns and the edges es.
InputEdges(ns, es, e) ==
  {ns[es[e].inputs_[i]].in_edge_ : i \in DOMAIN es[e].inputs_} \ {NoEdge}

\* The edges reached from edge e by following inputs at most n times.
RECURSIVE InputClosure(_, _, _, _)
InputClosure(ns, es, e, n) ==
  IF n = 0 THEN {e}
  ELSE {e} \cup UNION {InputClosure(ns, es, f, n - 1) :
                         f \in InputEdges(ns, es, e)}

\* The edges below the producing edge of node t.
Below(ns, es, t) ==
  IF ns[t].in_edge_ = NoEdge THEN {}
  ELSE InputClosure(ns, es, ns[t].in_edge_, Len(es))

\* C29: an AddTarget(t) that returns without error enters in want_ only
\* edges below the producing edge of t whose outputs are not ready, and
\* sets want to true only for an edge with a dirty output that is t or an
\* input of an edge it has entered.
C29_WantMap ==
  [][(pc = "add" /\ targets' # targets /\ err' = NoErr)
       => /\ \A e \in DOMAIN want_' \ DOMAIN want_ :
               /\ e \in Below(nodes', edges', last'.node)
               /\ ~edges'[e].outputs_ready_
          /\ \A e \in DOMAIN want_' :
               (want_'[e] /\ (e \in DOMAIN want_ => ~want_[e]))
                 => /\ e \in Below(nodes', edges', last'.node)
                    /\ \E i \in DOMAIN edges'[e].outputs_ :
                         /\ nodes'[edges'[e].outputs_[i]].dirty_
                         /\ \/ edges'[e].outputs_[i] = last'.node
                            \/ \E f \in DOMAIN want_' :
                                 edges'[e].outputs_[i]
                                   \in SeqToSet(edges'[f].inputs_)
          /\ \A e \in DOMAIN want_ :
               e \in DOMAIN want_' /\ (want_[e] => want_'[e])]_vars

\* After an AddTarget without error the plan holds a wanted edge and an
\* edge it does not want, and an edge below the target was left out
\* because its outputs are ready.
C29_Witness ==
  /\ last.op = "AddTarget" /\ last.ret /\ err = NoErr
  /\ \E e \in DOMAIN want_ : want_[e]
  /\ \E e \in DOMAIN want_ : ~want_[e]
  /\ \E e \in Below(nodes, edges, last.node) :
       e \notin DOMAIN want_ /\ edges[e].outputs_ready_

-----------------------------------------------------------------------------
(* The scan: phony edges.                                                  *)

\* The scan found edge e dirty: it marked its outputs.
FoundDirty(e) ==
  \E i \in DOMAIN edges[e].outputs_ : nodes[edges[e].outputs_[i]].dirty_

\* C30: the output check calls an output of a phony edge dirty only when
\* the edge has no inputs and the output is missing; a scanned phony edge
\* with inputs is dirty exactly when an input that is not order-only is
\* dirty or its dependency information is missing; a dirty phony edge
\* without inputs has outputs_ready_ and no other dirty edge has.
C30_PhonyDirty ==
  /\ (probe # NoProbe /\ is_phony(edges[probe.edge]))
       => (probe.ret <=> /\ edges[probe.edge].inputs_ = <<>>
                         /\ nodes[probe.output].mtime_ = 0)
  /\ \A e \in DOMAIN scanned :
       /\ (is_phony(edges[e]) /\ edges[e].inputs_ # <<>>)
            => (FoundDirty(e) <=>
                  \/ \E n \in RegularInputs(e) : nodes[n].dirty_
                  \/ edges[e].deps_missing_)
       /\ FoundDirty(e)
            => (edges[e].outputs_ready_
                  <=> (is_phony(edges[e]) /\ edges[e].inputs_ = <<>>))

\* The scan has found dirty a phony edge without inputs, and left clean a
\* phony edge whose only dirty input is order-only and whose output is
\* missing.
C30_Witness ==
  /\ manifest = MPhonyInputs
  /\ 1 \in DOMAIN scanned /\ FoundDirty(1) /\ edges[1].outputs_ready_
  /\ 3 \in DOMAIN scanned /\ ~FoundDirty(3)
  /\ nodes["oo"].dirty_ /\ nodes["ph"].mtime_ = 0
  /\ 4 \in DOMAIN scanned /\ FoundDirty(4) /\ edges[4].deps_missing_
  /\ ~nodes["in"].dirty_
  /\ ~edges[5].outputs_ready_

-----------------------------------------------------------------------------
(* The graph: inputs and in-edges.                                         *)

\* The number of explicit inputs of edge record e.
ExplicitCount(e) == Len(e.inputs_) - e.order_only_deps_ - e.implicit_deps_

\* The dependencies a load for edge record e finds: those of the deps log
\* for a rule with deps, else those of the depfile.
DepsFor(e) ==
  IF e.rule.deps # ""
  THEN (IF e.outputs_[1] \in DOMAIN deps_log
        THEN deps_log[e.outputs_[1]].nodes ELSE <<>>)
  ELSE IF e.rule.depfile # "" THEN depfiles[e.rule.depfile].ins
  ELSE <<>>

\* C31: whatever is loaded, the inputs of an edge stay explicit, then
\* implicit, then order-only: a step leaves the explicit inputs, the
\* implicit inputs there were and the order-only inputs as they are and
\* puts the loaded dependencies directly before the order-only ones,
\* implicit_deps_ grows by their number, and is_implicit and
\* is_order_only hold exactly on the indices of their segments.
C31_InputSegments ==
  [][\A e \in DOMAIN edges :
       /\ e \in DOMAIN edges'
       /\ edges'[e].order_only_deps_ = edges[e].order_only_deps_
       /\ ExplicitCount(edges'[e]) = ExplicitCount(edges[e])
       /\ ExplicitCount(edges'[e]) >= 0
       /\ edges'[e].implicit_deps_ - edges[e].implicit_deps_
            = Len(edges'[e].inputs_) - Len(edges[e].inputs_)
       /\ edges'[e].implicit_deps_ - edges[e].implicit_deps_
            \in {0, Len(DepsFor(edges[e]))}
       /\ edges'[e].inputs_ =
            SubSeq(edges[e].inputs_, 1,
                   Len(edges[e].inputs_) - edges[e].order_only_deps_)
            \o (IF edges'[e].implicit_deps_ = edges[e].implicit_deps_
                THEN <<>> ELSE DepsFor(edges[e]))
            \o SubSeq(edges[e].inputs_,
                      Len(edges[e].inputs_) - edges[e].order_only_deps_ + 1,
                      Len(edges[e].inputs_))
       /\ \A i \in DOMAIN edges'[e].inputs_ :
            /\ is_implicit(edges'[e], i)
                 <=> /\ i > ExplicitCount(edges'[e])
                     /\ i <= ExplicitCount(edges'[e])
                               + edges'[e].implicit_deps_
            /\ is_order_only(edges'[e], i)
                 <=> i > ExplicitCount(edges'[e]) + edges'[e].implicit_deps_]_vars

\* The dependency of the deps log was loaded twice for the edge of obj:
\* its inputs are src, h, h and the order-only gen.
C31_Witness ==
  /\ manifest = MDeps
  /\ edges[1].inputs_ = <<"src", "h", "h", "gen">>
  /\ edges[1].implicit_deps_ = 2 /\ edges[1].order_only_deps_ = 1

\* Every output of every edge of the graph (ns, es) has the edge as its
\* in-edge.
OutputsPointBack(ns, es) ==
  \A e \in DOMAIN es :
    \A i \in DOMAIN es[e].outputs_ : ns[es[e].outputs_[i]].in_edge_ = e

\* C32: every output of every edge has that edge as its in-edge, after
\* the manifest was read and after every load of dependencies; an edge
\* made for a loaded dependency is a phony edge with that node as its
\* only output, and the node had no in-edge before.
C32_InEdgeOfOutputs ==
  /\ []OutputsPointBack(nodes, edges)
  /\ [][\A e \in DOMAIN edges' \ DOMAIN edges :
          /\ is_phony(edges'[e])
          /\ Len(edges'[e].outputs_) = 1
          /\ nodes[edges'[e].outputs_[1]].in_edge_ = NoEdge
          /\ \A f \in DOMAIN edges' :
               edges'[e].outputs_[1] \in SeqToSet(edges'[f].outputs_)
                 => f = e]_vars

\* The header h of the deps log was loaded twice as input of the edge of
\* obj and has one phony in-edge, made at the first load.
C32_Witness ==
  /\ manifest = MDeps
  /\ Len(targets) = 2
  /\ Count(edges[1].inputs_, "h") = 2
  /\ Len(edges) = 2 /\ nodes["h"].in_edge_ = 2
  /\ edges[2].outputs_ = <<"h">>

-----------------------------------------------------------------------------
(* The scan: what dirty means.                                             *)

\* C33: a node that is dirty has a known status (its mtime_ is not -1):
\* RecomputeDirty stats an input or an output before it marks it dirty,
\* and CleanNode only clears marks.
C33_DirtyIsStatted ==
  \A n \in DOMAIN nodes : nodes[n].dirty_ => status_known(nodes[n])

\* CleanNode has cleaned an output and demoted an edge, and another node
\* of the build is still dirty.
C33_Witness ==
  /\ pc = "build"
  /\ demoted # {}
  /\ \E n \in DOMAIN nodes : nodes[n].dirty_ /\ nodes[n].mtime_ = 0
  /\ \E n \in DOMAIN nodes :
       /\ ~nodes[n].dirty_ /\ nodes[n].in_edge_ \in demoted

-----------------------------------------------------------------------------
(* The plan: counters and sets.                                            *)

\* C34: the current use of every pool with a depth is not negative and is
\* the number of edges of the pool that were admitted to the ready set
\* (they are in it, or FindWork returned them) and were not yet passed to
\* EdgeFinished; finishing a traverse-only edge that was never admitted
\* leaves it as it was.
C34_PoolUseCount ==
  \A p \in DOMAIN pools :
    pools[p].depth_ > 0 =>
      /\ pools[p].current_use_ >= 0
      /\ pools[p].current_use_ = Cardinality(InUse(p))

\* The edges in the delayed queue of some pool.
Delayed == UNION {SeqToSet(pools[p].delayed_) : p \in DOMAIN pools}

\* C35: every edge in the ready set or in the delayed queue of a pool is
\* in want_ with the value true; every edge FindWork returned is in
\* want_ until EdgeFinished takes it out, so the assert of EdgeFinished
\* holds; and CleanNode demotes no edge that is ready, delayed or was
\* returned by FindWork.
C35_ReadyIsWanted ==
  /\ [](/\ \A e \in ready_ \cup Delayed : e \in DOMAIN want_ /\ want_[e]
        /\ \A e \in running : e \in DOMAIN want_
        /\ ~crashed)
  /\ [][\A e \in demoted' \ demoted :
          e \notin ready_ \cup Delayed \cup running]_vars

\* In the build of the restat manifest with a pool, CleanNode has demoted
\* the edge of c, which waited for r, while o1 held the pool and o2 was
\* delayed; one of the two has since been returned by FindWork and the
\* other is in the ready set, both still wanted.
C35_Witness ==
  /\ manifest = MRestatPool
  /\ pc = "build"
  /\ demoted = {2}
  /\ ready_ # {} /\ running # {}
  /\ ready_ \cup running = {3, 4}
  /\ \A e \in {3, 4} : e \in DOMAIN want_ /\ want_[e]

\* The entries of want_ with the value true.
WantedTrue == {e \in DOMAIN want_ : want_[e]}

\* C36: wanted_edges_ is the number of entries of want_ with the value
\* true, and command_edges_ is not negative and at least the number of
\* those that are not phony, after any AddTarget, EdgeFinished and
\* CleanNode; a target added twice, or a second output of a wanted edge,
\* is not counted twice.
C36_WantedCount ==
  /\ wanted_edges_ = Cardinality(WantedTrue)
  /\ command_edges_ >= 0
  /\ command_edges_
       >= Cardinality({e \in WantedTrue : ~is_phony(edges[e])})

\* The target out was added twice; the edges of mid and of out are wanted
\* and counted once each.
C36_Witness ==
  /\ manifest = MChain
  /\ targets = <<"out", "out">>
  /\ last.op = "AddTarget" /\ last.planned
  /\ WantedTrue = {1, 2}
  /\ wanted_edges_ = 2 /\ command_edges_ = 2

\* C37: on a graph without cycle, in a run without failed command, once
\* wanted_edges_ is 0 the plan is drained: want_ has no entry left (the
\* traverse-only ones were finished by propagation), the ready set is
\* empty and no pool has a delayed edge.
C37_Drained ==
  [](Acyclic /\ wanted_edges_ = 0
       => /\ want_ = EmptyMap
          /\ ready_ = {}
          /\ Delayed = {})

\* The build of the pool manifest has ended with wanted_edges_ = 0: the
\* edges of oo, o1 and o2 ran, o2 after waiting in the delayed queue, and
\* the traverse-only edge of t was finished by propagation.
C37_Witness ==
  /\ manifest = MPool
  /\ targets = <<"t", "o1", "o2">>
  /\ pc \in {"build", "done"}
  /\ wanted_edges_ = 0
  /\ started = {1, 3, 4}
  /\ finished = {1, 2, 3, 4}

-----------------------------------------------------------------------------
(* The scan: staleness goes from inputs to outputs.                        *)

\* C38: after RecomputeDirty, on a graph without cycle, every scanned edge
\* with a dirty explicit or implicit input has all its outputs dirty, and
\* every scanned edge with an input (of any kind) whose in-edge has
\* outputs_ready_ = false has outputs_ready_ = false itself, whatever the
\* order of the visits and however often a node is reached.
C38_StalenessPropagates ==
  Acyclic =>
    \A e \in DOMAIN scanned :
      /\ (\E n \in RegularInputs(e) : nodes[n].dirty_)
           => \A i \in DOMAIN edges[e].outputs_ :
                nodes[edges[e].outputs_[i]].dirty_
      /\ (\E p \in Producers(e) : ~edges[p].outputs_ready_)
           => ~edges[e].outputs_ready_

\* In the diamond, base is dirty, so l and top are dirty; r, which has
\* base as order-only input, is clean but not ready, and neither is top;
\* r was asked for before top, so top found it scanned.
C38_Witness ==
  /\ manifest = MDiamond
  /\ targets = <<"r", "top">>
  /\ DOMAIN scanned = {1, 2, 3, 4}
  /\ nodes["base"].dirty_ /\ nodes["l"].dirty_ /\ nodes["top"].dirty_
  /\ ~nodes["r"].dirty_
  /\ ~edges[3].outputs_ready_ /\ ~edges[4].outputs_ready_

\* The nodes whose status is not known.
Unknown == {n \in DOMAIN nodes : ~status_known(nodes[n])}

\* C39: RecomputeDirty returns on every graph, with or without cycle: a
\* call enters an edge again only through an input that was not stat'd
\* before, so a scan (a step that adds a target) makes at most one call
\* more than there were nodes of unknown status when it began.
C39_ScanTerminates ==
  [][Len(targets') > Len(targets)
       => /\ visits' <= 1 + Cardinality(Unknown)
          /\ visits' < MaxVisits]_vars

\* RecomputeDirty was called on the edge of a in the cycle a <- b <- c <- a
\* with nothing stat'd: it came back to the edge of a through c, four calls
\* in all, and returned with every node stat'd.
C39_Witness ==
  /\ manifest = MCycle
  /\ targets = <<"a">>
  /\ last.op = "RecomputeDirty" /\ last.edge = 1 /\ last.ret
  /\ ~probe.known
  /\ visits = 4
  /\ Unknown = {}

-----------------------------------------------------------------------------
(* The cycle check of rule bindings ends.                                  *)

\* C40: CheckRuleBindingDependencyCycle returns for every rule, whatever
\* its reserved bindings reference and in whatever order they are
\* declared: ParseRule ends with the rule accepted or with an error, and
\* the loop that writes the cycle into the message comes to an end.
C40_CycleCheckReturns == pc # "hang"

====
